---- MODULE Spec2Model ----
(***************************************************************************)
(* cargo-stitch: a model of the interception-and-staging subsystem.        *)
(*                                                                         *)
(* File names and compiler arguments are TLA+ strings, handled character   *)
(* by character the way the Rust standard library handles them             *)
(* (str::replace, str::starts_with, Path::extension).  A path is the       *)
(* sequence of its components, and the filesystem is a function from       *)
(* absolute paths to nodes.                                                *)
(***************************************************************************)
EXTENDS Naturals, Integers, Sequences, FiniteSets, TLC

VARIABLES fs, host, orch, cargo, wraps, probe

vars == <<fs, host, orch, cargo, wraps, probe>>

(***************************************************************************)
(* Strings                                                                 *)
(***************************************************************************)

\* The characters the model uses, in ASCII (byte) order.
AsciiOrder == "-./0123456789=ABCDEFGHIJKLMNOPQRSTUVWXYZ_abcdefghijklmnopqrstuvwxyz"

At(s, i) == SubSeq(s, i, i)

\* The byte value order of the characters, as a table.
OrdTable == [c \in {At(AsciiOrder, i) : i \in 1..Len(AsciiOrder)} |->
                CHOOSE i \in 1..Len(AsciiOrder) : At(AsciiOrder, i) = c]

Ord(c) == OrdTable[c]

\* Byte-wise lexicographic order, as Ord for OsStr / str.
StrLess(a, b) ==
    \E i \in 1..(Len(a) + 1) :
        /\ i <= Len(b) + 1
        /\ SubSeq(a, 1, i - 1) = SubSeq(b, 1, i - 1)
        /\ \/ i = Len(a) + 1 /\ i <= Len(b)
           \/ i <= Len(a) /\ i <= Len(b) /\ Ord(At(a, i)) < Ord(At(b, i))

\* pat occurs in s at index i (1-based).
IsAt(s, pat, i) == i >= 1 /\ i + Len(pat) - 1 <= Len(s) /\ SubSeq(s, i, i + Len(pat) - 1) = pat

\* str::starts_with
starts_with(s, pat) == IsAt(s, pat, 1)

\* str::ends_with
ends_with(s, pat) == IsAt(s, pat, Len(s) - Len(pat) + 1)

\* Index of the first occurrence of pat in s at or after pos; 0 when there is none.
FindFrom(s, pat, pos) ==
    LET hits == {i \in pos..(Len(s) + 1) : IsAt(s, pat, i)}
    IN  IF hits = {} THEN 0 ELSE CHOOSE i \in hits : \A j \in hits : i <= j

\* str::replacen(from, to, n), scanning from pos: the first n matches, left to
\* right and non-overlapping, are replaced.  An empty pattern matches at every
\* character boundary.  n = -1 stands for no limit (str::replace).
RECURSIVE ReplaceFrom(_, _, _, _, _)
ReplaceFrom(s, from, to, pos, n) ==
    LET j == FindFrom(s, from, pos)
    IN  IF n = 0 \/ j = 0 THEN SubSeq(s, pos, Len(s))
        ELSE IF from = ""
             THEN IF j > Len(s) THEN to
                  ELSE to \o At(s, j) \o ReplaceFrom(s, from, to, j + 1, IF n < 0 THEN n ELSE n - 1)
        ELSE SubSeq(s, pos, j - 1) \o to
                 \o ReplaceFrom(s, from, to, j + Len(from), IF n < 0 THEN n ELSE n - 1)

\* A near miss of str::replace that stops after the first match.
replace_first(s, from, to) == ReplaceFrom(s, from, to, 1, 1)

\* str::replace
replace(s, from, to) == ReplaceFrom(s, from, to, 1, -1)

\* str::replacen
replacen(s, from, to, n) == ReplaceFrom(s, from, to, 1, n)

\* str::trim_end_matches(char)
RECURSIVE trim_end_matches(_, _)
trim_end_matches(s, c) ==
    IF Len(s) > 0 /\ At(s, Len(s)) = c THEN trim_end_matches(SubSeq(s, 1, Len(s) - 1), c) ELSE s

(***************************************************************************)
(* Paths (std::path, Unix)                                                 *)
(***************************************************************************)

\* Option<T>
None == [some |-> FALSE]
Some(v) == [some |-> TRUE, v |-> v]

\* Path::components: the normal components of p, in order ("" and "." dropped).
RECURSIVE ComponentsFrom(_, _)
ComponentsFrom(p, pos) ==
    IF pos > Len(p) THEN <<>>
    ELSE LET j == FindFrom(p, "/", pos)
             stop == IF j = 0 THEN Len(p) + 1 ELSE j
             comp == SubSeq(p, pos, stop - 1)
             rest == ComponentsFrom(p, stop + 1)
         IN  IF comp = "" \/ comp = "." THEN rest ELSE <<comp>> \o rest

components(p) == ComponentsFrom(p, 1)

has_root(p) == starts_with(p, "/")

\* The components of a relative path written back as a string.
RECURSIVE JoinComponents(_)
JoinComponents(cs) ==
    IF cs = <<>> THEN ""
    ELSE IF Len(cs) = 1 THEN cs[1]
    ELSE cs[1] \o "/" \o JoinComponents(Tail(cs))

\* PathBuf::from of an absolute path string: a path is the sequence of its components.
PathOf(str) == components(str)

\* Path::to_string_lossy of an absolute path.
PathStr(p) == "/" \o JoinComponents(p)

\* Path::join with a single-component name.
join(base, name) == Append(base, name)

\* Path::file_name
file_name(p) == IF p = <<>> THEN "" ELSE p[Len(p)]

\* Path::parent
parent(p) == SubSeq(p, 1, Len(p) - 1)

\* Path::starts_with: component-wise prefix.
path_starts_with(p, base) == Len(base) <= Len(p) /\ SubSeq(p, 1, Len(base)) = base

\* Path::strip_prefix(base).ok(): component-wise; the remainder is a relative path.
strip_prefix(p, base) ==
    IF path_starts_with(p, base) THEN Some(SubSeq(p, Len(base) + 1, Len(p))) ELSE None

\* Index of the last "." of a file name; 0 when there is none.
LastDot(name) ==
    LET dots == {i \in 1..Len(name) : At(name, i) = "."}
    IN  IF dots = {} THEN 0 ELSE CHOOSE i \in dots : \A j \in dots : j <= i

\* Path::extension: the part after the last dot of the file name; None when
\* there is no dot, when the only dot leads the name, or for "..".
extension(p) ==
    LET name == file_name(p)
        d == LastDot(name)
    IN  IF name = ".." \/ d = 0 \/ d = 1 THEN None
        ELSE Some(SubSeq(name, d + 1, Len(name)))

(***************************************************************************)
(* Filesystem: a function from absolute paths to nodes.                    *)
(***************************************************************************)

DirNode == [kind |-> "dir"]
FileNode(c) == [kind |-> "file", content |-> c]

exists(f, p) == p \in DOMAIN f
is_dir(f, p) == p \in DOMAIN f /\ f[p].kind = "dir"

\* p lies strictly below directory d.
Below(p, d) == p # d /\ path_starts_with(p, d)

\* fs::read_dir: the entries of directory d.
read_dir(f, d) == {p \in DOMAIN f : Len(p) = Len(d) + 1 /\ parent(p) = d}

\* f with node n at path p.
WithNode(f, p, n) == [q \in DOMAIN f \cup {p} |-> IF q = p THEN n ELSE f[q]]

\* sort of a set of distinct strings: the ascending sequence.
RECURSIVE SortStrings(_)
SortStrings(S) ==
    IF S = {} THEN <<>>
    ELSE LET m == CHOOSE x \in S : \A y \in S : x = y \/ StrLess(x, y)
         IN  <<m>> \o SortStrings(S \ {m})

\* A near miss of the sort below: descending order.
RECURSIVE SortEntriesDescending(_)
SortEntriesDescending(S) ==
    IF S = {} THEN <<>>
    ELSE LET m == CHOOSE x \in S : \A y \in S : x = y \/ StrLess(file_name(y), file_name(x))
         IN  <<m>> \o SortEntriesDescending(S \ {m})

\* sort of the entries of one directory: paths compare component by
\* component, so entries of one directory compare by file name.
RECURSIVE SortEntries(_)
SortEntries(S) ==
    IF S = {} THEN <<>>
    ELSE LET m == CHOOSE x \in S : \A y \in S : x = y \/ StrLess(file_name(x), file_name(y))
         IN  <<m>> \o SortEntries(S \ {m})

(***************************************************************************)
(* stitch.rs: Stitch, StitchSet, discovery                                 *)
(***************************************************************************)

Patch(path) == [kind |-> "Patch", path |-> path]
SgRule(path) == [kind |-> "SgRule", path |-> path]

\* Stitch::from_path
from_path(path) ==
    LET e == extension(path)
    IN  IF e = Some("patch") THEN Some(Patch(path))
        ELSE IF e = Some("yaml") \/ e = Some("yml") THEN Some(SgRule(path))
        ELSE None

\* paths.into_iter().filter_map(Stitch::from_path).collect()
RECURSIVE filter_map_from_path(_)
filter_map_from_path(paths) ==
    IF paths = <<>> THEN <<>>
    ELSE LET s == from_path(Head(paths))
         IN  (IF s.some THEN <<s.v>> ELSE <<>>) \o filter_map_from_path(Tail(paths))

Ok(v) == [ok |-> TRUE, v |-> v]
Err(e) == [ok |-> FALSE, err |-> e]

IoError == [kind |-> "IoError"]

\* A near miss of the insertion below: the emptiness test is dropped.
InsertAlways(manifest, pkg_name, stitches) ==
    [n \in DOMAIN manifest \cup {pkg_name} |->
        IF n = pkg_name THEN [stitches |-> stitches] ELSE manifest[n]]

\* if !stitches.is_empty() { manifest.insert(pkg_name, StitchSet { stitches }); }
InsertNonEmpty(manifest, pkg_name, stitches) ==
    IF stitches # <<>>
    THEN [n \in DOMAIN manifest \cup {pkg_name} |->
            IF n = pkg_name THEN [stitches |-> stitches] ELSE manifest[n]]
    ELSE manifest

\* A near miss of the loop of discover_all: an entry that cannot be read ends
\* the scan with the packages found so far.
RECURSIVE DiscoverLoopPartial(_, _, _, _)
DiscoverLoopPartial(f, entries, manifest, unreadable) ==
    IF entries = <<>> \/ Head(entries) \in unreadable THEN Ok(manifest)
    ELSE IF ~is_dir(f, Head(entries))
    THEN DiscoverLoopPartial(f, Tail(entries), manifest, unreadable)
    ELSE DiscoverLoopPartial(f, Tail(entries),
                             InsertNonEmpty(manifest, file_name(Head(entries)),
                                            filter_map_from_path(SortEntries(read_dir(f, Head(entries))))),
                             unreadable)

\* The loop of discover_all over the sorted top-level entries; unreadable is
\* the set of paths whose read_dir or file_type fails.
RECURSIVE DiscoverLoop(_, _, _, _)
DiscoverLoop(f, entries, manifest, unreadable) ==
    IF entries = <<>> THEN Ok(manifest)
    ELSE LET entry == Head(entries)
             pkg_name == file_name(entry)
             paths == SortEntries(read_dir(f, entry))
             stitches == filter_map_from_path(paths)
         IN  IF entry \in unreadable THEN Err(IoError)
             ELSE IF ~is_dir(f, entry) THEN DiscoverLoop(f, Tail(entries), manifest, unreadable)
             ELSE DiscoverLoop(f, Tail(entries), InsertNonEmpty(manifest, pkg_name, stitches),
                               unreadable)

EmptyManifest == [n \in {} |-> [stitches |-> <<>>]]

\* StitchSet::discover_all
discover_all(f, stitches_dir, unreadable) ==
    IF ~is_dir(f, stitches_dir) THEN Ok(EmptyManifest)
    ELSE IF stitches_dir \in unreadable THEN Err(IoError)
    ELSE DiscoverLoop(f, SortEntries(read_dir(f, stitches_dir)), EmptyManifest, unreadable)

(***************************************************************************)
(* fs.rs and the std::fs calls of wrapper.rs                               *)
(***************************************************************************)

\* Paths deeper than this cannot be created (stands for PATH_MAX).
MaxPathDepth == 8

\* A near miss of remove_dir_all: nothing is removed.
remove_dir_all_kept(f, d) == f

\* fs::remove_dir_all
remove_dir_all(f, d) == [p \in {q \in DOMAIN f : ~path_starts_with(q, d)} |-> f[p]]

\* The ancestors of p (p included), the root excluded.
Ancestors(p) == {SubSeq(p, 1, i) : i \in 1..Len(p)}

\* fs::create_dir_all: fails when the path is too deep or an ancestor is a file.
create_dir_all(f, p) ==
    IF \/ Len(p) > MaxPathDepth
       \/ \E a \in Ancestors(p) : a \in DOMAIN f /\ f[a].kind # "dir"
    THEN [ok |-> FALSE, fs |-> f]
    ELSE [ok |-> TRUE,
          fs |-> [q \in DOMAIN f \cup Ancestors(p) |-> IF q \in DOMAIN f THEN f[q] ELSE DirNode]]

\* A near miss of the skip: no name is skipped.
NoSkippedNames == {}

\* The entry names the copy skips.
SkippedNames == {"target", ".git"}

\* copy_dir_recursive(src, dst); the entries of a directory are visited in
\* some fixed order.  The result carries the filesystem as left behind, also on
\* failure (no rollback), and the entries the loops have taken from read_dir,
\* in the order taken.
RECURSIVE copy_dir_recursive(_, _, _)
RECURSIVE CopyEntries(_, _, _)
copy_dir_recursive(f, src, dst) ==
    LET made == create_dir_all(f, dst)
    IN  IF ~made.ok \/ ~is_dir(made.fs, src)
        THEN [ok |-> FALSE, fs |-> made.fs, visited |-> <<>>]
        ELSE CopyEntries(made.fs, read_dir(made.fs, src), dst)

CopyEntries(f, entries, dst) ==
    IF entries = {} THEN [ok |-> TRUE, fs |-> f, visited |-> <<>>]
    ELSE LET src_path == CHOOSE e \in entries : TRUE
             name == file_name(src_path)
             dst_path == join(dst, name)
             rest == entries \ {src_path}
         IN  IF name \in SkippedNames
             THEN [CopyEntries(f, rest, dst) EXCEPT !.visited = <<src_path>> \o @]
             ELSE IF is_dir(f, src_path)
                  THEN LET sub == copy_dir_recursive(f, src_path, dst_path)
                       IN  IF sub.ok
                           THEN [CopyEntries(sub.fs, rest, dst)
                                    EXCEPT !.visited = <<src_path>> \o sub.visited \o @]
                           ELSE [sub EXCEPT !.visited = <<src_path>> \o @]
             ELSE IF Len(dst_path) > MaxPathDepth \/ ~exists(f, src_path)
                  THEN [ok |-> FALSE, fs |-> f, visited |-> <<src_path>>]
             ELSE [CopyEntries(WithNode(f, dst_path, f[src_path]), rest, dst)
                      EXCEPT !.visited = <<src_path>> \o @]

(***************************************************************************)
(* File contents and the two external engines                              *)
(***************************************************************************)

\* A source file holding text t.
Text(t) == [text |-> t, from |-> "", to |-> ""]
\* A patch or a rule that turns text from into text to.
Rewrite(from, to) == [text |-> "rewrite", from |-> from, to |-> to]
\* A rule file the structural engine cannot load.
Invalid == [text |-> "invalid", from |-> "", to |-> ""]

\* The file of a package every modification of the model targets.
SrcFile == <<"src", "lib.rs">>

IsRewriteFile(f, file) ==
    exists(f, file) /\ f[file].kind = "file" /\ f[file].content.text = "rewrite"

\* The options Stitch::apply passes to patch besides -i file and -d dir.
PatchFlags == {"-s", "-p1"}

\* The options that make patch reject a hunk whose context differs at all.
StrictFlags == {"-F0", "--fuzz=0"}

\* Text t with a context line that differs: a trailing "~" marks the difference.
Variant(t) == t \o "~"

\* Texts a and b differ in a context line only.
Near(a, b) == a = Variant(b) \/ b = Variant(a)

\* patch -s -p1 -i file -d dir: the hunk applies when the target holds the
\* context the patch expects.  When the context differs in a line, patch
\* applies the hunk all the same (its default fuzz factor is 2) and leaves the
\* differing line as the file has it, unless an option of StrictFlags is
\* given; any other mismatch is rejected with a non-zero exit.
patch_engine(f, file, dir) ==
    LET target == dir \o SrcFile
        from == f[file].content.from
        to == f[file].content.to
        held == f[target].content.text
    IN  IF ~IsRewriteFile(f, file) THEN [status |-> 2, fs |-> f]
        ELSE IF ~(exists(f, target) /\ f[target].kind = "file") THEN [status |-> 1, fs |-> f]
        ELSE IF f[target].content = Text(from)
             THEN [status |-> 0, fs |-> [f EXCEPT ![target] = FileNode(Text(to))]]
        ELSE IF f[target].content = Text(held) /\ Near(held, from) /\ PatchFlags \cap StrictFlags = {}
             THEN [status |-> 0,
                   fs |-> [f EXCEPT ![target] =
                              FileNode(Text(IF held = Variant(from) THEN Variant(to) ELSE to))]]
        ELSE [status |-> 1, fs |-> f]

\* sg scan -r file --update-all dir: every match under dir is rewritten; no
\* match is not an error; a rule that cannot be loaded exits non-zero.
sg_engine(f, file, dir) ==
    IF ~IsRewriteFile(f, file) THEN [status |-> 1, fs |-> f]
    ELSE [status |-> 0,
          fs |-> [p \in DOMAIN f |->
                    IF Below(p, dir) /\ f[p].kind = "file" /\ f[p].content = Text(f[file].content.from)
                    THEN FileNode(Text(f[file].content.to))
                    ELSE f[p]]]

PatchFailed(file) == [kind |-> "PatchFailed", file |-> file]
AstGrepFailed(file) == [kind |-> "AstGrepFailed", file |-> file]

\* A near miss of Stitch::apply: the engine's exit status is ignored.
StitchApplyLenient(f, stitch, dir) ==
    IF stitch.kind = "Patch"
    THEN LET output == patch_engine(f, stitch.path, dir)
         IN  [res |-> Ok("unit"), fs |-> output.fs,
              ran |-> [tool |-> "patch", file |-> stitch.path, dir |-> dir, status |-> output.status]]
    ELSE LET output == sg_engine(f, stitch.path, dir)
         IN  [res |-> Ok("unit"), fs |-> output.fs,
              ran |-> [tool |-> "sg", file |-> stitch.path, dir |-> dir, status |-> output.status]]

\* A near miss of Stitch::apply: the engines are pointed at the package's
\* source directory instead of the directory they are given.
StitchApplyInSource(f, stitch, dir) ==
    LET source == IF file_name(dir) = "app" THEN <<"ws">> ELSE <<"ws", file_name(dir)>>
        output == IF stitch.kind = "Patch" THEN patch_engine(f, stitch.path, source)
                  ELSE sg_engine(f, stitch.path, source)
    IN  [res |-> IF output.status = 0 THEN Ok("unit")
                 ELSE IF stitch.kind = "Patch" THEN Err(PatchFailed(stitch.path))
                 ELSE Err(AstGrepFailed(stitch.path)),
         fs |-> output.fs,
         ran |-> [tool |-> IF stitch.kind = "Patch" THEN "patch" ELSE "sg", file |-> stitch.path,
                  dir |-> dir, status |-> output.status]]

\* Stitch::apply: the engine's exit status alone decides the result; ran
\* records the engine process that was run.
StitchApply(f, stitch, dir) ==
    IF stitch.kind = "Patch"
    THEN LET output == patch_engine(f, stitch.path, dir)
         IN  [res |-> IF output.status # 0 THEN Err(PatchFailed(stitch.path)) ELSE Ok("unit"),
              fs |-> output.fs, ran |-> [tool |-> "patch", file |-> stitch.path, dir |-> dir,
                                         status |-> output.status]]
    ELSE LET output == sg_engine(f, stitch.path, dir)
         IN  [res |-> IF output.status # 0 THEN Err(AstGrepFailed(stitch.path)) ELSE Ok("unit"),
              fs |-> output.fs, ran |-> [tool |-> "sg", file |-> stitch.path, dir |-> dir,
                                         status |-> output.status]]

(***************************************************************************)
(* wrapper.rs: staging directory and argument rewriting                    *)
(***************************************************************************)

PATCHED_CRATES_DIR == "cargo-stitch"

\* A near miss of patched_dir: the copy is made beside the sources.
patched_dir_in_place(pkg_name, workspace_root) == join(workspace_root, pkg_name)

\* A near miss of patched_dir: one staged directory for all packages.
patched_dir_shared(pkg_name, workspace_root) ==
    join(join(workspace_root, "target"), PATCHED_CRATES_DIR)

\* patched_dir(pkg_name, workspace_root)
patched_dir(pkg_name, workspace_root) ==
    join(join(join(workspace_root, "target"), PATCHED_CRATES_DIR), pkg_name)

\* A near miss of relative_manifest_prefix: no trailing separator.
relative_manifest_prefix_bare(manifest_dir, workspace_root) ==
    LET rel == strip_prefix(manifest_dir, workspace_root)
    IN  IF rel.some THEN Some(JoinComponents(rel.v)) ELSE None

\* relative_manifest_prefix
relative_manifest_prefix(manifest_dir, workspace_root) ==
    LET rel == strip_prefix(manifest_dir, workspace_root)
    IN  IF rel.some THEN Some(JoinComponents(rel.v) \o "/") ELSE None

\* The closure mapped over rustc_args.
rewrite_arg(arg, manifest_dir_str, patched_dir_str, rel_prefix) ==
    LET result == replace(arg, manifest_dir_str, patched_dir_str)
    IN  IF result # arg THEN result
        ELSE IF rel_prefix.some /\ starts_with(arg, rel_prefix.v)
             THEN replacen(arg, trim_end_matches(rel_prefix.v, "/"), patched_dir_str, 1)
        ELSE arg

\* rewritten_args, for the environment's strings manifest_dir and workspace_root
rewritten_args(rustc_args, manifest_dir, workspace_root, pkg_name) ==
    [i \in 1..Len(rustc_args) |->
        rewrite_arg(rustc_args[i], manifest_dir,
                    PathStr(patched_dir(pkg_name, PathOf(workspace_root))),
                    relative_manifest_prefix(PathOf(manifest_dir), PathOf(workspace_root)))]

(***************************************************************************)
(* Processes: environment, errors, serialisation                           *)
(***************************************************************************)

WRAPPER_ENV == "__CARGO_STITCH_WRAP"
\* The two names are imported from the crate root; their values do not matter here.
WORKSPACE_ROOT_ENV == "WORKSPACE_ROOT_ENV"
STITCH_MANIFEST_ENV == "STITCH_MANIFEST_ENV"

MissingEnvVar(name) == [kind |-> "MissingEnvVar", name |-> name]
MissingTool(name) == [kind |-> "MissingTool", name |-> name]
MissingWorkspaceRoot(cwd) == [kind |-> "MissingWorkspaceRoot", cwd |-> cwd]
CargoFailed(code) == [kind |-> "CargoFailed", code |-> code]

\* The environment of a user's shell: none of the coordination variables.
UserEnv == [wrap |-> None, root |-> None, manifest |-> None, pkg |-> None, manifest_dir |-> None]

\* serde_json::to_string of the manifest: the entries as a list (here in key order).
RECURSIVE EntriesOf(_, _)
EntriesOf(manifest, keys) ==
    IF keys = <<>> THEN <<>>
    ELSE <<[key |-> Head(keys), value |-> manifest[Head(keys)].stitches]>>
             \o EntriesOf(manifest, Tail(keys))

to_string(manifest) == EntriesOf(manifest, SortStrings(DOMAIN manifest))

\* serde_json::from_str(..).is_ok(): every value of the text is a list of
\* variants of Stitch.
from_str_ok(json) ==
    \A i \in 1..Len(json) :
        \A j \in 1..Len(json[i].value) : json[i].value[j].kind \in {"Patch", "SgRule"}

\* serde_json::from_str: the map the entries of the text give.
from_str(json) ==
    [n \in {json[i].key : i \in 1..Len(json)} |->
        [stitches |-> json[CHOOSE i \in 1..Len(json) :
                               json[i].key = n /\ \A j \in (i + 1)..Len(json) : json[j].key # n].value]]

\* A near miss of check_required_tools: nothing is checked.
check_no_tools(tools) == Ok("unit")

\* check_required_tools
check_required_tools(tools) ==
    IF "patch" \notin tools THEN Err(MissingTool("patch"))
    ELSE IF "sg" \notin tools THEN Err(MissingTool("sg (ast-grep)"))
    ELSE Ok("unit")

\* run: the mode a process runs in.
Mode(env) == IF env.wrap.some THEN "WRAP" ELSE "ORCHESTRATE"

\* find_workspace_root (cargo metadata): the enclosing directory that holds
\* the workspace manifest.
find_workspace_root(f, cwd) ==
    LET roots == {a \in Ancestors(cwd) :
                    /\ exists(f, join(a, "Cargo.toml"))
                    /\ f[join(a, "Cargo.toml")] = FileNode(Text("workspace"))}
    IN  IF roots = {} \/ ~is_dir(f, cwd) THEN None
        ELSE Some(CHOOSE a \in roots : \A b \in roots : Len(b) <= Len(a))

\* main: the exit code of the process for the result of run().
ExitCode(result) == IF result.ok THEN 0 ELSE 1

\* ExitStatus::success
success(status) == status = Some(0)

\* status.code().unwrap_or(1)
unwrap_or(opt, d) == IF opt.some THEN opt.v ELSE d

(***************************************************************************)
(* The workspace of the model                                              *)
(***************************************************************************)

MaxBuilds == 2
MaxWraps == 2

WsRoot == <<"ws">>
StitchesDir == join(WsRoot, "stitches")

\* Package name -> CARGO_MANIFEST_DIR.  app is the package at the workspace root.
ManifestDirOf == [foo |-> "/ws/foo", foobar |-> "/ws/foobar", app |-> "/ws"]
PkgNames == DOMAIN ManifestDirOf

\* The arguments cargo passes to the compiler for a package: the source file
\* in workspace-relative or in absolute form.
RustcArgs(pkg, form) ==
    LET dir == PathOf(ManifestDirOf[pkg])
    IN  <<"--crate-name", pkg,
          IF form = "abs" THEN PathStr(dir \o SrcFile)
          ELSE JoinComponents(strip_prefix(dir, WsRoot).v \o SrcFile),
          "--out-dir=/ws/target/debug/deps">>

ArgForms == {"abs", "rel"}

\* The source file argument of a compiler invocation, resolved against the
\* workspace root (the compiler's working directory).
InputOf(args) ==
    LET rs == {i \in 1..Len(args) : ends_with(args[i], ".rs")}
        arg == args[CHOOSE i \in rs : TRUE]
    IN  IF rs = {} THEN None
        ELSE IF has_root(arg) THEN Some(PathOf(arg))
        ELSE Some(WsRoot \o components(arg))

\* The sources of the workspace: every package holds src/lib.rs.
SourceTree ==
    LET dirs == {<<"ws">>, <<"ws", ".git">>, <<"ws", "src">>, <<"ws", "foo">>, <<"ws", "foo", "src">>,
                 <<"ws", "foobar">>, <<"ws", "foobar", "src">>}
        files == [p \in {<<"ws", "Cargo.toml">>, <<"ws", ".git", "HEAD">>, <<"ws", "src", "lib.rs">>,
                         <<"ws", "foo", "src", "lib.rs">>, <<"ws", "foobar", "src", "lib.rs">>} |->
                    IF p = <<"ws", "Cargo.toml">> THEN Text("workspace")
                    ELSE IF p = <<"ws", ".git", "HEAD">> THEN Text("ref")
                    ELSE Text("hello")]
    IN  [p \in dirs \cup DOMAIN files |-> IF p \in dirs THEN DirNode ELSE FileNode(files[p])]

\* The union of two filesystems; g wins where both hold a path.
Overlay(f, g) == [p \in DOMAIN f \cup DOMAIN g |-> IF p \in DOMAIN g THEN g[p] ELSE f[p]]

NoFiles == [p \in {} |-> DirNode]

\* A directory dir holding the files of the function files (name -> content).
DirWith(dir, files) ==
    [p \in {dir} \cup {join(dir, n) : n \in DOMAIN files} |->
        IF p = dir THEN DirNode ELSE FileNode(files[file_name(p)])]

\* The partial functions from names to the contents opts allows for each name.
PartialChoices(opts) ==
    UNION {{g \in [S -> UNION {opts[n] : n \in S}] : \A n \in S : g[n] \in opts[n]} :
              S \in SUBSET DOMAIN opts}

\* The modification files a user may have written for package foo.
FooStitchOptions ==
    [n \in {"001-fix.patch", "002-rename.yaml", "003-last.patch"} |->
        IF n = "001-fix.patch" THEN {Rewrite("hello", "patched")}
        ELSE IF n = "002-rename.yaml" THEN {Rewrite("patched", "both"), Invalid}
        ELSE {Rewrite("both", "hello"), Rewrite("patched", "both")}]

\* ... for the root package app ...
AppStitchOptions == [n \in {"001-fix.patch"} |-> {Rewrite("hello", "patched")}]

\* ... and for foobar: nothing the discovery recognises.
FoobarStitchOptions == [n \in {"notes.txt"} |-> {Text("todo")}]

\* The stitches directory for the given per-package files (package -> name ->
\* content); a package with no file gets no subdirectory, and no package at
\* all gives no stitches directory.
RECURSIVE StitchesTreeOf(_, _)
StitchesTreeOf(per, pkgs) ==
    IF pkgs = {} THEN NoFiles
    ELSE LET n == CHOOSE x \in pkgs : TRUE
         IN  Overlay(StitchesTreeOf(per, pkgs \ {n}), DirWith(join(StitchesDir, n), per[n]))

StitchesTree(per) ==
    LET used == {n \in DOMAIN per : DOMAIN per[n] # {}}
    IN  IF used = {} THEN NoFiles
        ELSE Overlay(DirWith(StitchesDir, NoFiles), StitchesTreeOf(per, used))

ToolSets == {{"patch", "sg"}, {"sg"}, {"patch"}, {}}

(***************************************************************************)
(* The build: one ORCHESTRATE process, the build tool, WRAP processes      *)
(***************************************************************************)

IdleOrch == [pc |-> "idle", builds |-> 0, result |-> None, exit |-> None,
             discovered |-> 0, launched |-> 0]
CargoOff == [pc |-> "off", env |-> UserEnv, jobs |-> 1, failed |-> FALSE, status |-> None, spawned |-> 0]
NoProbe == [op |-> "none"]

\* A WRAP process is over once it failed or its compiler has exited.
Active(w) == w.pc \notin {"failed", "exited"}

Init ==
    /\ \E foo \in PartialChoices(FooStitchOptions), app \in PartialChoices(AppStitchOptions),
          foobar \in PartialChoices(FoobarStitchOptions) :
            fs = Overlay(SourceTree, StitchesTree([foo |-> foo, app |-> app, foobar |-> foobar]))
    /\ host \in {[tools |-> t] : t \in ToolSets}
    /\ orch = IdleOrch
    /\ cargo = CargoOff
    /\ wraps = <<>>
    /\ probe = NoProbe

\* A near miss of run_subcommand: the wrapper flag is not put in the
\* environment of the build tool.
PrepareWithoutFlag(f, tools, cwd, unreadable) ==
    LET workspace_root == find_workspace_root(f, cwd)
        manifest == discover_all(f, join(workspace_root.v, "stitches"), unreadable)
    IN  IF ~check_required_tools(tools).ok THEN check_required_tools(tools)
        ELSE IF ~workspace_root.some THEN Err(MissingWorkspaceRoot(cwd))
        ELSE IF ~manifest.ok THEN manifest
        ELSE Ok([wrap |-> None, root |-> Some(PathStr(workspace_root.v)),
                 manifest |-> Some(to_string(manifest.v)),
                 pkg |-> None, manifest_dir |-> None])

\* run_subcommand up to the launch of the build tool: the result is the error,
\* or the environment the build tool is launched with.
Prepare(f, tools, cwd, unreadable) ==
    LET workspace_root == find_workspace_root(f, cwd)
        manifest == discover_all(f, join(workspace_root.v, "stitches"), unreadable)
    IN  IF ~check_required_tools(tools).ok THEN check_required_tools(tools)
        ELSE IF ~workspace_root.some THEN Err(MissingWorkspaceRoot(cwd))
        ELSE IF ~manifest.ok THEN manifest
        ELSE Ok([wrap |-> Some("1"), root |-> Some(PathStr(workspace_root.v)),
                 manifest |-> Some(to_string(manifest.v)),
                 pkg |-> None, manifest_dir |-> None])

\* run_subcommand reaches the call of discover_all.
Discovers(f, tools, cwd) == check_required_tools(tools).ok /\ find_workspace_root(f, cwd).some

\* A user runs `cargo stitch build` in directory cwd: the process runs
\* ORCHESTRATE and either fails or launches the build tool and waits for it.
Orchestrate(cwd, unreadable) ==
    /\ orch.pc \in {"idle", "exited"}
    /\ orch.builds < MaxBuilds
    /\ Mode(UserEnv) = "ORCHESTRATE"
    /\ LET prepared == Prepare(fs, host.tools, cwd, unreadable)
       IN  IF prepared.ok
           THEN /\ orch' = [pc |-> "waiting", builds |-> orch.builds + 1, result |-> None, exit |-> None,
                            discovered |-> 1, launched |-> 1]
                /\ cargo' = [cargo EXCEPT !.pc = "running", !.env = prepared.v, !.status = None,
                                           !.failed = FALSE]
           ELSE /\ orch' = [pc |-> "exited", builds |-> orch.builds + 1,
                            result |-> Some(prepared), exit |-> Some(ExitCode(prepared)),
                            discovered |-> IF Discovers(fs, host.tools, cwd) THEN 1 ELSE 0,
                            launched |-> 0]
                /\ cargo' = [cargo EXCEPT !.pc = "off", !.env = UserEnv, !.status = None, !.failed = FALSE]
    /\ wraps' = <<>>
    /\ UNCHANGED <<fs, host, probe>>

\* A process the build tool starts as its compiler: the wrapper, with the
\* build tool's environment and the package's variables.
NewWrap(env, rustc_args) ==
    [pc |-> "start", env |-> env, rustc |-> "rustc", args |-> rustc_args,
     stitches |-> <<>>, dir |-> <<>>, k |-> 0, log |-> <<>>,
     result |-> None, exec |-> None, seen |-> None, exit |-> None,
     discovered |-> 0, launched |-> 0, visited |-> <<>>]

\* The build tool compiles package pkg.
CargoSpawn(pkg, form) ==
    /\ cargo.pc = "running"
    /\ cargo.spawned < MaxWraps
    /\ Len(wraps) < cargo.jobs
    /\ wraps' = Append(wraps, NewWrap([cargo.env EXCEPT !.pkg = Some(pkg),
                                                        !.manifest_dir = Some(ManifestDirOf[pkg])],
                                      RustcArgs(pkg, form)))
    /\ cargo' = [cargo EXCEPT !.spawned = @ + 1]
    /\ UNCHANGED <<fs, host, orch, probe>>

\* The build tool probes the compiler's version: no package variables.
CargoProbe ==
    /\ cargo.pc = "running"
    /\ cargo.spawned < MaxWraps
    /\ Len(wraps) < cargo.jobs
    /\ wraps' = Append(wraps, NewWrap(cargo.env, <<"-vV">>))
    /\ cargo' = [cargo EXCEPT !.spawned = @ + 1]
    /\ UNCHANGED <<fs, host, orch, probe>>

Failed(w, e) == [w EXCEPT !.pc = "failed", !.result = Some(Err(e)), !.exit = Some(ExitCode(Err(e)))]
\* exec_rustc: the process becomes the compiler, run with args.
Exec(w, args) == [w EXCEPT !.pc = "rustc", !.exec = Some(args)]

\* A near miss of the start of run_wrapper: a package without an entry has
\* its arguments rewritten all the same.
WrapStartRewriting(w, tools) ==
    LET manifest == from_str(w.env.manifest.v)
        pkg_name == w.env.pkg.v
    IN  IF ~check_required_tools(tools).ok THEN Failed(w, check_required_tools(tools).err)
        ELSE IF ~w.env.pkg.some THEN Exec(w, w.args)
        ELSE IF ~w.env.manifest_dir.some THEN Failed(w, MissingEnvVar("CARGO_MANIFEST_DIR"))
        ELSE IF ~w.env.root.some THEN Failed(w, MissingEnvVar(WORKSPACE_ROOT_ENV))
        ELSE IF ~w.env.manifest.some THEN Failed(w, MissingEnvVar(STITCH_MANIFEST_ENV))
        ELSE IF pkg_name \notin DOMAIN manifest
             THEN Exec(w, rewritten_args(w.args, w.env.manifest_dir.v, w.env.root.v, pkg_name))
        ELSE [w EXCEPT !.pc = "remove", !.stitches = manifest[pkg_name].stitches,
                       !.dir = patched_dir(pkg_name, PathOf(w.env.root.v))]

\* A near miss of the start of run_wrapper: an absent workspace root or
\* manifest variable makes the process pass through instead of failing.
WrapStartLenient(w, tools) ==
    LET manifest == from_str(w.env.manifest.v)
        pkg_name == w.env.pkg.v
    IN  IF ~check_required_tools(tools).ok THEN Failed(w, check_required_tools(tools).err)
        ELSE IF ~w.env.pkg.some THEN Exec(w, w.args)
        ELSE IF ~w.env.manifest_dir.some THEN Failed(w, MissingEnvVar("CARGO_MANIFEST_DIR"))
        ELSE IF ~w.env.root.some \/ ~w.env.manifest.some THEN Exec(w, w.args)
        ELSE IF pkg_name \notin DOMAIN manifest THEN Exec(w, w.args)
        ELSE [w EXCEPT !.pc = "remove", !.stitches = manifest[pkg_name].stitches,
                       !.dir = patched_dir(pkg_name, PathOf(w.env.root.v))]

\* A near miss of the start of run_wrapper: the coordination variables are
\* read before the package name.
WrapStartEnvFirst(w, tools) ==
    LET manifest == from_str(w.env.manifest.v)
        pkg_name == w.env.pkg.v
    IN  IF ~check_required_tools(tools).ok THEN Failed(w, check_required_tools(tools).err)
        ELSE IF ~w.env.root.some THEN Failed(w, MissingEnvVar(WORKSPACE_ROOT_ENV))
        ELSE IF ~w.env.manifest.some THEN Failed(w, MissingEnvVar(STITCH_MANIFEST_ENV))
        ELSE IF ~w.env.pkg.some THEN Exec(w, w.args)
        ELSE IF ~w.env.manifest_dir.some THEN Failed(w, MissingEnvVar("CARGO_MANIFEST_DIR"))
        ELSE IF pkg_name \notin DOMAIN manifest THEN Exec(w, w.args)
        ELSE [w EXCEPT !.pc = "remove", !.stitches = manifest[pkg_name].stitches,
                       !.dir = patched_dir(pkg_name, PathOf(w.env.root.v))]

\* run() and run_wrapper up to the manifest lookup.
WrapStartStep(w, tools) ==
    LET manifest == from_str(w.env.manifest.v)
        pkg_name == w.env.pkg.v
    IN  IF ~check_required_tools(tools).ok THEN Failed(w, check_required_tools(tools).err)
        ELSE IF ~w.env.pkg.some THEN Exec(w, w.args)
        ELSE IF ~w.env.manifest_dir.some THEN Failed(w, MissingEnvVar("CARGO_MANIFEST_DIR"))
        ELSE IF ~w.env.root.some THEN Failed(w, MissingEnvVar(WORKSPACE_ROOT_ENV))
        ELSE IF ~w.env.manifest.some THEN Failed(w, MissingEnvVar(STITCH_MANIFEST_ENV))
        ELSE IF ~from_str_ok(w.env.manifest.v) THEN Failed(w, IoError)
        ELSE IF pkg_name \notin DOMAIN manifest THEN Exec(w, w.args)
        ELSE [w EXCEPT !.pc = "remove", !.stitches = manifest[pkg_name].stitches,
                       !.dir = patched_dir(pkg_name, PathOf(w.env.root.v))]

\* run_subcommand in a process that was started as a compiler, in the
\* workspace root: it discovers and launches a build tool of its own.
SubcommandStep(w, f, tools) ==
    LET prepared == Prepare(f, tools, WsRoot, {})
    IN  [w EXCEPT !.pc = IF prepared.ok THEN "orchestrating" ELSE "failed",
                  !.discovered = IF Discovers(f, tools, WsRoot) THEN 1 ELSE 0,
                  !.launched = IF prepared.ok THEN 1 ELSE 0,
                  !.result = IF prepared.ok THEN None ELSE Some(prepared),
                  !.exit = IF prepared.ok THEN None ELSE Some(ExitCode(prepared))]

\* run: the mode is chosen by the wrapper flag of the process's environment.
RunStep(w, f, tools) ==
    IF Mode(w.env) = "WRAP" THEN WrapStartStep(w, tools) ELSE SubcommandStep(w, f, tools)

WrapStart(i) ==
    /\ wraps[i].pc = "start"
    /\ wraps' = [wraps EXCEPT ![i] = RunStep(wraps[i], fs, host.tools)]
    /\ UNCHANGED <<fs, host, orch, cargo, probe>>

\* if patched_dir.exists() { fs::remove_dir_all(&patched_dir) }
WrapRemove(i) ==
    /\ wraps[i].pc = "remove"
    /\ fs' = IF exists(fs, wraps[i].dir) THEN remove_dir_all(fs, wraps[i].dir) ELSE fs
    /\ wraps' = [wraps EXCEPT ![i].pc = "copy"]
    /\ UNCHANGED <<host, orch, cargo, probe>>

\* copy_dir_recursive(&manifest_dir, &patched_dir)
WrapCopy(i) ==
    /\ wraps[i].pc = "copy"
    /\ LET copied == copy_dir_recursive(fs, PathOf(wraps[i].env.manifest_dir.v), wraps[i].dir)
       IN  /\ fs' = copied.fs
           /\ wraps' = [wraps EXCEPT ![i] =
                           IF copied.ok
                           THEN [@ EXCEPT !.pc = "apply", !.k = 1, !.visited = copied.visited]
                           ELSE Failed([@ EXCEPT !.visited = copied.visited], IoError)]
    /\ UNCHANGED <<host, orch, cargo, probe>>

\* A near miss of the loop's order: last to first.
NextStitchReversed(stitches, k) == stitches[Len(stitches) - k + 1]

\* The stitch the loop of StitchSet::apply takes at its k-th turn.
NextStitch(stitches, k) == stitches[k]

\* One turn of the loop of StitchSet::apply; after the last one, the
\* arguments are rewritten and the compiler takes over the process.
WrapApply(i) ==
    /\ wraps[i].pc = "apply"
    /\ wraps[i].k <= Len(wraps[i].stitches)
    /\ LET applied == StitchApply(fs, NextStitch(wraps[i].stitches, wraps[i].k), wraps[i].dir)
       IN  /\ fs' = applied.fs
           /\ wraps' = [wraps EXCEPT ![i] =
                            IF applied.res.ok
                            THEN [@ EXCEPT !.k = @ + 1, !.log = Append(@, applied.ran)]
                            ELSE Failed([@ EXCEPT !.log = Append(@, applied.ran)], applied.res.err)]
    /\ UNCHANGED <<host, orch, cargo, probe>>

\* A near miss of the end of run_wrapper: the compiler is launched while
\* modifications are still to be applied.
WrapExecEarly(i) ==
    /\ wraps[i].pc = "apply"
    /\ wraps' = [wraps EXCEPT ![i] = Exec(@, rewritten_args(@.args, @.env.manifest_dir.v,
                                                            @.env.root.v, @.env.pkg.v))]
    /\ UNCHANGED <<fs, host, orch, cargo, probe>>

\* The arguments are rewritten and the compiler takes over the process.
WrapExec(i) ==
    /\ wraps[i].pc = "apply"
    /\ wraps[i].k > Len(wraps[i].stitches)
    /\ wraps' = [wraps EXCEPT ![i] = Exec(@, rewritten_args(@.args, @.env.manifest_dir.v,
                                                            @.env.root.v, @.env.pkg.v))]
    /\ UNCHANGED <<fs, host, orch, cargo, probe>>

\* The compiler reads its source file and exits; it fails when the file is missing.
RustcRun(i) ==
    /\ wraps[i].pc = "rustc"
    /\ LET input == InputOf(wraps[i].exec.v)
           found == input.some /\ exists(fs, input.v) /\ fs[input.v].kind = "file"
       IN  /\ wraps' = [wraps EXCEPT ![i].pc = "exited",
                                     ![i].seen = IF found THEN Some(fs[input.v].content) ELSE None,
                                     ![i].exit = Some(IF input.some /\ ~found THEN 1 ELSE 0)]
           /\ fs' = IF found THEN create_dir_all(fs, WsRoot \o <<"target", "debug">>).fs ELSE fs
    /\ UNCHANGED <<host, orch, cargo, probe>>

\* The build tool collects a compiler process that is over.
CargoReap(i) ==
    /\ ~Active(wraps[i])
    /\ wraps' = SubSeq(wraps, 1, i - 1) \o SubSeq(wraps, i + 1, Len(wraps))
    /\ cargo' = [cargo EXCEPT !.failed = @ \/ wraps[i].exit # Some(0)]
    /\ UNCHANGED <<fs, host, orch, probe>>

\* The exit statuses of the build tool: 0, its failure code, killed by a signal.
CargoStatuses == {Some(0), Some(101), None}

\* The build tool exits; it cannot succeed when a compiler process failed.
CargoExit(status) ==
    /\ cargo.pc = "running"
    /\ wraps = <<>>
    /\ cargo.failed => ~success(status)
    /\ cargo' = [cargo EXCEPT !.pc = "exited", !.status = Some(status)]
    /\ UNCHANGED <<fs, host, orch, wraps, probe>>

\* run_subcommand after the build tool has exited, and main.
Finish(status) ==
    IF success(status) THEN Ok("unit") ELSE Err(CargoFailed(unwrap_or(status, 1)))

OrchFinish ==
    /\ orch.pc = "waiting"
    /\ cargo.pc = "exited"
    /\ orch' = [orch EXCEPT !.pc = "exited", !.result = Some(Finish(cargo.status.v)),
                            !.exit = Some(ExitCode(Finish(cargo.status.v)))]
    /\ UNCHANGED <<fs, host, cargo, wraps, probe>>

\* Between builds the user deletes the modifications of a package.
UserRemoveStitches(pkg) ==
    /\ orch.pc = "exited"
    /\ orch.builds < MaxBuilds
    /\ exists(fs, join(StitchesDir, pkg))
    /\ fs' = remove_dir_all(fs, join(StitchesDir, pkg))
    /\ UNCHANGED <<host, orch, cargo, wraps, probe>>

Cwds == {<<"ws">>, <<"ws", "foo">>, <<"tmp">>}

\* What may fail to be read during a discovery: nothing, the stitches
\* directory, or its last entry.
Unreadables == {{}, {StitchesDir}, {join(StitchesDir, "foobar")}}

Next ==
    \/ \E cwd \in Cwds, unreadable \in Unreadables : Orchestrate(cwd, unreadable)
    \/ \E pkg \in PkgNames, form \in ArgForms : CargoSpawn(pkg, form)
    \/ CargoProbe
    \/ \E i \in 1..Len(wraps) : WrapStart(i)
    \/ \E i \in 1..Len(wraps) : WrapRemove(i)
    \/ \E i \in 1..Len(wraps) : WrapCopy(i)
    \/ \E i \in 1..Len(wraps) : WrapApply(i)
    \/ \E i \in 1..Len(wraps) : WrapExec(i)
    \/ \E i \in 1..Len(wraps) : RustcRun(i)
    \/ \E i \in 1..Len(wraps) : CargoReap(i)
    \/ \E status \in CargoStatuses : CargoExit(status)
    \/ OrchFinish
    \/ \E pkg \in PkgNames : UserRemoveStitches(pkg)

Spec == Init /\ [][Next]_vars

(***************************************************************************)
(* Discovery alone, over bounded modification directories                  *)
(***************************************************************************)

MaxFiles == 2

\* File names: a stem and a suffix.
Stems == {"", "0", "1"}
Suffixes == {"", ".patch", ".yaml", ".yml", ".txt", ".patch.orig", "."}
FileNames == {s \o x : s \in Stems, x \in Suffixes} \ {"", "."}

\* The entries of one package subdirectory: at most MaxFiles names, each a
\* regular file or a directory.
EntrySets ==
    UNION {[S -> {"file", "dir"}] : S \in {T \in SUBSET FileNames : Cardinality(T) <= MaxFiles}}

NodeOfKind(kind) == IF kind = "dir" THEN DirNode ELSE FileNode(Text("x"))

SubdirWith(dir, entries) ==
    [p \in {dir} \cup {join(dir, n) : n \in DOMAIN entries} |->
        IF p = dir THEN DirNode ELSE NodeOfKind(entries[file_name(p)])]

\* What the second top-level entry, "zed.patch", may be.
ZedChoices == {"absent", "file", "empty dir", "dir with 0.txt", "dir with 0.patch"}

ZedTree(choice) ==
    LET zed == join(StitchesDir, "zed.patch")
    IN  IF choice = "absent" THEN NoFiles
        ELSE IF choice = "file" THEN [p \in {zed} |-> FileNode(Text("x"))]
        ELSE IF choice = "empty dir" THEN [p \in {zed} |-> DirNode]
        ELSE IF choice = "dir with 0.txt" THEN SubdirWith(zed, [n \in {"0.txt"} |-> "file"])
        ELSE SubdirWith(zed, [n \in {"0.patch"} |-> "file"])

DiscoverTrees ==
    {Overlay([p \in {WsRoot, StitchesDir} |-> DirNode],
             Overlay(SubdirWith(join(StitchesDir, "foo"), entries), ZedTree(zed))) :
        entries \in EntrySets, zed \in ZedChoices}
    \cup {[p \in {WsRoot} |-> DirNode],
          [p \in {WsRoot, StitchesDir} |-> IF p = WsRoot THEN DirNode ELSE FileNode(Text("x"))],
          [p \in {WsRoot, StitchesDir} |-> DirNode]}

InitDiscover ==
    /\ fs \in DiscoverTrees
    /\ host = [tools |-> {"patch", "sg"}]
    /\ orch = IdleOrch
    /\ cargo = CargoOff
    /\ wraps = <<>>
    /\ probe = NoProbe

\* StitchSet::discover_all on the workspace's stitches directory.
Discover(unreadable) ==
    /\ probe = NoProbe
    /\ probe' = [op |-> "discover", unreadable |-> unreadable,
                 result |-> discover_all(fs, StitchesDir, unreadable)]
    /\ UNCHANGED <<fs, host, orch, cargo, wraps>>

NextDiscover ==
    \E unreadable \in {{}, {StitchesDir}, {join(StitchesDir, "foo")}, {join(StitchesDir, "zed.patch")}} :
        Discover(unreadable)

SpecDiscover == InitDiscover /\ [][NextDiscover]_vars

(***************************************************************************)
(* Argument rewriting alone, over bounded argument lists                   *)
(***************************************************************************)

MaxPieces == 3

\* Arguments are made of these pieces.
Pieces == {"/ws", "/ws/foo", "foo", "bar", "/", "/src", "="}

RECURSIVE PieceStrings(_)
PieceStrings(n) ==
    IF n = 0 THEN {""} ELSE {""} \cup {a \o b : a \in Pieces, b \in PieceStrings(n - 1)}

\* The arguments that follow the first one.
MoreArgs == {"foo", "foo/src/lib.rs", "foobar/src/lib.rs", "--out-dir=/ws/target/debug/deps"}

\* The argument lists that may follow the first argument.
MoreArgLists == {<<>>} \cup {<<x>> : x \in MoreArgs}

\* Package name -> CARGO_MANIFEST_DIR: the packages of the workspace, a
\* package whose directory repeats the root's name, and one outside the workspace.
RewriteDirOf ==
    [foo |-> "/ws/foo", foobar |-> "/ws/foobar", app |-> "/ws", ws |-> "/ws/ws", dep |-> "/ext/dep"]

InitRewrite ==
    /\ fs = NoFiles
    /\ host = [tools |-> {"patch", "sg"}]
    /\ orch = IdleOrch
    /\ cargo = CargoOff
    /\ wraps = <<>>
    /\ \E pkg \in DOMAIN RewriteDirOf, first \in PieceStrings(MaxPieces) \ {""},
          more \in MoreArgLists :
            probe = [op |-> "args", pkg |-> pkg, manifest_dir |-> RewriteDirOf[pkg],
                     workspace_root |-> PathStr(WsRoot), args |-> <<first>> \o more]

\* The argument rewriting of run_wrapper.
Rewrite_args ==
    /\ probe.op = "args"
    /\ probe' = [probe EXCEPT !.op = "rewritten"] @@
                [out |-> rewritten_args(probe.args, probe.manifest_dir, probe.workspace_root, probe.pkg)]
    /\ UNCHANGED <<fs, host, orch, cargo, wraps>>

NextRewrite == Rewrite_args

SpecRewrite == InitRewrite /\ [][NextRewrite]_vars

(***************************************************************************)
(* One process alone, started as a compiler with any environment           *)
(***************************************************************************)

\* The modification files of package foo: a patch whose context matches the
\* source, differs from it in a line, or does not match at all, and a rule.
WrapFooOptions ==
    [n \in {"001-fix.patch", "002-rename.yaml"} |->
        IF n = "001-fix.patch"
        THEN {Rewrite("hello", "patched"), Rewrite(Variant("hello"), "patched"), Rewrite("bye", "patched")}
        ELSE {Rewrite("patched", "both"), Invalid}]

\* What an earlier build may have left at the staged directory d: nothing, or
\* a copy with a modified source file, a file and a directory the sources no
\* longer have.
StaleChoices == {"absent", "stale", "blocked"}

\* What the place of the staged directory d holds before the process starts:
\* nothing, the copy an earlier build left, or a regular file where the
\* directory of all staged copies is to be.
StaleTree(d, choice) ==
    IF choice = "absent" THEN NoFiles
    ELSE IF choice = "blocked"
    THEN [p \in {SubSeq(d, 1, Len(d) - 2), SubSeq(d, 1, Len(d) - 1)} |->
            IF Len(p) = Len(d) - 1 THEN FileNode(Text("")) ELSE DirNode]
    ELSE [p \in Ancestors(d) \cup {join(d, "src"), join(d, "gone"), join(d, "old.rs"), d \o SrcFile} |->
            IF p = join(d, "old.rs") THEN FileNode(Text("patched"))
            ELSE IF p = d \o SrcFile THEN FileNode(Text("both"))
            ELSE DirNode]

\* A manifest text that does not deserialize: foo's list names a variant
\* Stitch does not have.
MalformedManifest == <<[key |-> "foo", value |-> <<[kind |-> "Hook", path |-> <<"ws">>]>>]>>

\* The environments a process may be started with: each variable present or
\* absent, the manifest also malformed; the wrapper flag, when present, with
\* either value.
WrapEnvs(manifest) ==
    {[wrap |-> wrap, root |-> root, manifest |-> m, pkg |-> pkg, manifest_dir |-> dir] :
        wrap \in {None, Some("1"), Some("")},
        root \in {None, Some(PathStr(WsRoot))},
        m \in {None, Some(manifest), Some(MalformedManifest)},
        pkg \in {None} \cup {Some(n) : n \in PkgNames},
        dir \in {None} \cup {Some(ManifestDirOf[n]) : n \in PkgNames}}

\* The staged directory a process with environment env would use; foo's when
\* the environment names no package.
StagedDirFor(env) == patched_dir(IF env.pkg.some THEN env.pkg.v ELSE "foo", WsRoot)

\* The arguments the process is started with.
ArgsFor(env, form) == IF env.pkg.some THEN RustcArgs(env.pkg.v, form) ELSE <<"-vV">>

InitWrap ==
    /\ host \in {[tools |-> t] : t \in ToolSets}
    /\ orch = IdleOrch
    /\ cargo = CargoOff
    /\ probe = NoProbe
    /\ \E foo \in PartialChoices(WrapFooOptions), stale \in StaleChoices, form \in ArgForms :
          LET sources == Overlay(SourceTree,
                                 StitchesTree([foo |-> foo,
                                               app |-> [n \in {"001-fix.patch"} |-> Rewrite("hello", "patched")],
                                               foobar |-> [n \in {"notes.txt"} |-> Text("todo")]]))
              manifest == to_string(discover_all(sources, StitchesDir, {}).v)
          IN  \E env \in WrapEnvs(manifest) :
                  /\ env.manifest_dir.some => (env.pkg.some /\ env.manifest_dir.v = ManifestDirOf[env.pkg.v])
                  /\ fs = Overlay(sources, StaleTree(StagedDirFor(env), stale))
                  /\ wraps = <<NewWrap(env, ArgsFor(env, form))>>

\* The process of a first build is over; a later build, with the sources and
\* the modification files as they are, starts the same process again.  probe
\* keeps what the first one left.
Rebuild ==
    /\ probe = NoProbe
    /\ Len(wraps) = 1
    /\ ~Active(wraps[1])
    /\ probe' = [op |-> "first", dir |-> StagedDirFor(wraps[1].env),
                 tree |-> [p \in {q \in DOMAIN fs : path_starts_with(q, StagedDirFor(wraps[1].env))} |-> fs[p]],
                 result |-> wraps[1].result, exec |-> wraps[1].exec, seen |-> wraps[1].seen,
                 log |-> wraps[1].log]
    /\ wraps' = <<NewWrap(wraps[1].env, wraps[1].args)>>
    /\ UNCHANGED <<fs, host, orch, cargo>>

NextWrap ==
    \/ \E i \in 1..Len(wraps) : WrapStart(i)
    \/ \E i \in 1..Len(wraps) : WrapRemove(i)
    \/ \E i \in 1..Len(wraps) : WrapCopy(i)
    \/ \E i \in 1..Len(wraps) : WrapApply(i)
    \/ \E i \in 1..Len(wraps) : WrapExec(i)
    \/ \E i \in 1..Len(wraps) : RustcRun(i)
    \/ Rebuild

SpecWrap == InitWrap /\ [][NextWrap]_vars

(***************************************************************************)
(* Two processes the build tool runs at the same time                      *)
(***************************************************************************)

\* The environment the build tool gives the compiler process of package pkg.
PairEnv(manifest, pkg) ==
    [wrap |-> Some("1"), root |-> Some(PathStr(WsRoot)), manifest |-> Some(manifest),
     pkg |-> Some(pkg), manifest_dir |-> Some(ManifestDirOf[pkg])]

\* Every package has modifications; the build tool has made its output
\* directory; the staged directories are absent or hold what an earlier build
\* left.  probe keeps the filesystem the two start from.
InitPair ==
    /\ host = [tools |-> {"patch", "sg"}]
    /\ orch = IdleOrch
    /\ cargo = CargoOff
    /\ \E foo \in PartialChoices(WrapFooOptions), stale \in {"absent", "stale"}, form \in ArgForms,
          first \in PkgNames, second \in PkgNames :
          LET fix == [n \in {"001-fix.patch"} |-> Rewrite("hello", "patched")]
              sources == Overlay(SourceTree, StitchesTree([foo |-> foo, app |-> fix, foobar |-> fix]))
              manifest == to_string(discover_all(sources, StitchesDir, {}).v)
              built == create_dir_all(sources, WsRoot \o <<"target", "debug">>).fs
          IN  /\ fs = Overlay(Overlay(built, StaleTree(patched_dir(first, WsRoot), stale)),
                              StaleTree(patched_dir(second, WsRoot), stale))
              /\ wraps = <<NewWrap(PairEnv(manifest, first), RustcArgs(first, form)),
                           NewWrap(PairEnv(manifest, second), RustcArgs(second, form))>>
    /\ probe = [op |-> "pair", before |-> fs]

\* The two processes take their steps in any order.
NextPair ==
    \/ \E i \in 1..Len(wraps) : WrapStart(i)
    \/ \E i \in 1..Len(wraps) : WrapRemove(i)
    \/ \E i \in 1..Len(wraps) : WrapCopy(i)
    \/ \E i \in 1..Len(wraps) : WrapApply(i)
    \/ \E i \in 1..Len(wraps) : WrapExec(i)
    \/ \E i \in 1..Len(wraps) : RustcRun(i)

SpecPair == InitPair /\ [][NextPair]_vars

(***************************************************************************)
(* The recursive copy alone, over bounded source trees                     *)
(***************************************************************************)

\* The names an entry of the copied directory, and of a directory in it, may have.
TopNames == {"a", "target", ".git"}
SubNames == {"b", "target"}

\* An entry is absent, a regular file, or a directory with entries of its own.
TopChoices ==
    {[kind |-> k, sub |-> [m \in SubNames |-> "absent"]] : k \in {"absent", "file"}}
        \cup {[kind |-> "dir", sub |-> sub] : sub \in [SubNames -> {"absent", "file", "dir"}]}

\* The tree below src the choices describe; every file holds its own path.
CopyTreeOf(src, choice) ==
    LET top == {join(src, n) : n \in {m \in TopNames : choice[m].kind # "absent"}}
        sub == UNION {{join(join(src, n), m) : m \in {x \in SubNames : choice[n].sub[x] # "absent"}} :
                         n \in {m \in TopNames : choice[m].kind = "dir"}}
        kind(p) == IF Len(p) = Len(src) + 1 THEN choice[file_name(p)].kind
                   ELSE choice[file_name(parent(p))].sub[file_name(p)]
    IN  [p \in {src} \cup top \cup sub |->
            IF p = src \/ kind(p) = "dir" THEN DirNode ELSE FileNode(Text(PathStr(p)))]

InitCopy ==
    /\ fs \in {CopyTreeOf(WsRoot, choice) : choice \in [TopNames -> TopChoices]}
    /\ host = [tools |-> {"patch", "sg"}]
    /\ orch = IdleOrch
    /\ cargo = CargoOff
    /\ wraps = <<>>
    /\ probe = NoProbe

\* copy_dir_recursive(src, dst) for a destination that does not exist yet,
\* outside the source.
Copy ==
    /\ probe = NoProbe
    /\ LET copied == copy_dir_recursive(fs, WsRoot, <<"out">>)
       IN  /\ fs' = copied.fs
           /\ probe' = [op |-> "copy", src |-> WsRoot, dst |-> <<"out">>, before |-> fs,
                        ok |-> copied.ok, visited |-> copied.visited]
    /\ UNCHANGED <<host, orch, cargo, wraps>>

NextCopy == Copy

SpecCopy == InitCopy /\ [][NextCopy]_vars

(***************************************************************************)
(* Properties                                                              *)
(***************************************************************************)

\* The text a modification leaves in a file holding content, by the meaning
\* of its file: a rewrite of text from turns it into text to and leaves any
\* other text alone.
EffectOn(f, stitch, content) ==
    LET m == f[stitch.path].content
    IN  IF m.text = "rewrite" /\ content = Text(m.from) THEN Text(m.to) ELSE content

\* The first n modifications of stitches, one after the other.
RECURSIVE AppliedInOrder(_, _, _, _)
AppliedInOrder(f, stitches, n, content) ==
    IF n = 0 THEN content
    ELSE EffectOn(f, stitches[n], AppliedInOrder(f, stitches, n - 1, content))

\* The staged and the original source file of a WRAP process.
Staged(w) == fs[w.dir \o SrcFile].content
Original(w) == fs[PathOf(w.env.manifest_dir.v) \o SrcFile].content

\* StitchSet::apply has returned Ok in process w.
Stitched(w) ==
    /\ w.dir # <<>>
    /\ \/ w.pc = "apply" /\ w.k > Len(w.stitches)
       \/ w.pc = "rustc"

\* C1: after a successful StitchSet::apply the engines have been run once per
\* modification, in ascending order of file name whatever the kinds, and the
\* staged file holds the result of applying them one after the other in that order.
C1_AppliedInDiscoveredOrder ==
    \A i \in 1..Len(wraps) :
        LET w == wraps[i]
        IN  Stitched(w) =>
              /\ \A j \in 1..(Len(w.stitches) - 1) :
                    StrLess(file_name(w.stitches[j].path), file_name(w.stitches[j + 1].path))
              /\ Len(w.log) = Len(w.stitches)
              /\ \A j \in 1..Len(w.log) :
                    /\ w.log[j].file = w.stitches[j].path
                    /\ w.log[j].tool = (IF w.stitches[j].kind = "Patch" THEN "patch" ELSE "sg")
                    /\ w.log[j].dir = w.dir
              /\ Staged(w) = AppliedInOrder(fs, w.stitches, Len(w.stitches), Original(w))

\* A patch "hello" -> "patched" followed by a rule "patched" -> "both" has
\* left "both"; in the other order the file would hold "patched".
C1_Witness ==
    \E i \in 1..Len(wraps) :
        /\ Stitched(wraps[i])
        /\ Len(wraps[i].stitches) = 2
        /\ wraps[i].stitches[1].kind = "Patch"
        /\ wraps[i].stitches[2].kind = "SgRule"
        /\ Original(wraps[i]) = Text("hello")
        /\ Staged(wraps[i]) = Text("both")
        /\ EffectOn(fs, wraps[i].stitches[1], EffectOn(fs, wraps[i].stitches[2], Text("hello")))
             = Text("patched")

\* The final extension of a file name is e: the name ends in "." and e, and
\* that dot is not the name's first character.
HasExt(name, e) == ends_with(name, "." \o e) /\ Len(name) > Len(e) + 1

IsPatchName(name) == HasExt(name, "patch")
IsRuleName(name) == HasExt(name, "yaml") \/ HasExt(name, "yml")

\* The entries of directory d that are modification files by their names.
Recognised(f, d) == {p \in read_dir(f, d) : IsPatchName(file_name(p)) \/ IsRuleName(file_name(p))}

\* The sequence s of modifications is what subdirectory d holds.
IsContentOf(f, d, s) ==
    /\ {s[j].path : j \in 1..Len(s)} = Recognised(f, d)
    /\ Len(s) = Cardinality(Recognised(f, d))
    /\ \A j \in 1..Len(s) :
          s[j].kind = (IF IsPatchName(file_name(s[j].path)) THEN "Patch" ELSE "SgRule")
    /\ \A j \in 1..(Len(s) - 1) : StrLess(file_name(s[j].path), file_name(s[j + 1].path))

\* C2: when nothing is unreadable, discover_all succeeds and gives, for each
\* immediate subdirectory, exactly its entries with extension patch (as Patch)
\* or yaml/yml (as SgRule) in ascending order of file name; other entries and
\* top-level entries that are not directories appear nowhere.
C2_DiscoverExact ==
    (probe.op = "discover" /\ probe.unreadable = {}) =>
        /\ probe.result.ok
        /\ \A n \in DOMAIN probe.result.v : is_dir(fs, join(StitchesDir, n))
        /\ \A d \in read_dir(fs, StitchesDir) :
              is_dir(fs, d) =>
                 IF Recognised(fs, d) = {} THEN file_name(d) \notin DOMAIN probe.result.v
                 ELSE /\ file_name(d) \in DOMAIN probe.result.v
                      /\ IsContentOf(fs, d, probe.result.v[file_name(d)].stitches)

\* A subdirectory with a rule and a patch, the rule's name first, beside a
\* top-level regular file whose name ends in .patch.
C2_Witness ==
    /\ probe.op = "discover"
    /\ probe.unreadable = {}
    /\ probe.result.ok
    /\ "foo" \in DOMAIN probe.result.v
    /\ Len(probe.result.v["foo"].stitches) = 2
    /\ probe.result.v["foo"].stitches[1].kind = "SgRule"
    /\ probe.result.v["foo"].stitches[2].kind = "Patch"
    /\ exists(fs, join(StitchesDir, "zed.patch"))
    /\ ~is_dir(fs, join(StitchesDir, "zed.patch"))

NoEmptyEntry(manifest) == \A n \in DOMAIN manifest : manifest[n].stitches # <<>>

\* C3: the manifest discover_all returns for the workspace, the manifest the
\* build tool's environment carries and the manifest every WRAP process reads
\* hold no empty sequence, and a subdirectory without a recognised file has no entry.
C3_NoEmptyEntry ==
    /\ LET r == discover_all(fs, StitchesDir, {})
       IN  r.ok => /\ NoEmptyEntry(r.v)
                   /\ \A d \in read_dir(fs, StitchesDir) :
                         Recognised(fs, d) = {} => file_name(d) \notin DOMAIN r.v
    /\ cargo.env.manifest.some => NoEmptyEntry(from_str(cargo.env.manifest.v))
    /\ \A i \in 1..Len(wraps) :
          wraps[i].env.manifest.some => NoEmptyEntry(from_str(wraps[i].env.manifest.v))

\* The WRAP process of foobar, whose subdirectory holds only notes.txt, reads
\* a manifest that has entries, none of them foobar's.
C3_Witness ==
    \E i \in 1..Len(wraps) :
        /\ wraps[i].env.pkg = Some("foobar")
        /\ wraps[i].pc = "rustc"
        /\ exists(fs, join(join(StitchesDir, "foobar"), "notes.txt"))
        /\ DOMAIN from_str(wraps[i].env.manifest.v) # {}
        /\ "foobar" \notin DOMAIN from_str(wraps[i].env.manifest.v)

\* The staging output directory tree and what a filesystem holds of it.
StagingRoot == join(join(WsRoot, "target"), PATCHED_CRATES_DIR)
StagingTree(f) == [p \in {q \in DOMAIN f : path_starts_with(q, StagingRoot)} |-> f[p]]

\* Process w is compiling a package the manifest it was given has no entry for.
NoEntry(w) ==
    /\ w.env.pkg.some
    /\ w.env.manifest.some
    /\ w.env.pkg.v \notin DOMAIN from_str(w.env.manifest.v)

\* The step is one of process i.
StepOf(i) == Len(wraps') = Len(wraps) /\ wraps'[i] # wraps[i]

\* The running build found no modification at all.
EmptyBuild == cargo.pc = "running" /\ from_str(cargo.env.manifest.v) = EmptyManifest

\* C4 (as amended): a WRAP process of a package without a manifest entry
\* launches the compiler with the arguments it received and none of its steps
\* changes anything in the staging tree; no step of a build that discovered no
\* modification changes the staging tree, which is after the build as it was
\* before (absent if it was absent).
C4_PassthroughLeavesStaging ==
    /\ [](\A i \in 1..Len(wraps) :
             (NoEntry(wraps[i]) /\ wraps[i].exec.some) => wraps[i].exec.v = wraps[i].args)
    /\ [][\A i \in 1..Len(wraps) :
             (NoEntry(wraps[i]) /\ StepOf(i)) => StagingTree(fs') = StagingTree(fs)]_vars
    /\ [][EmptyBuild => StagingTree(fs') = StagingTree(fs)]_vars

\* C4 as stated: once a build that discovered no modification is over, the
\* staging tree does not exist.
C4_AsStated ==
    (orch.pc = "exited" /\ cargo.pc = "exited"
        /\ from_str(cargo.env.manifest.v) = EmptyManifest) => ~exists(fs, StagingRoot)

\* A passthrough for foo given by its absolute path, which the rewriting
\* would have changed, during a build that discovered nothing, while the
\* staging tree of an earlier build is still there.
C4_Witness ==
    \E i \in 1..Len(wraps) :
        /\ NoEntry(wraps[i])
        /\ wraps[i].env.pkg = Some("foo")
        /\ wraps[i].pc = "rustc"
        /\ wraps[i].exec = Some(RustcArgs("foo", "abs"))
        /\ EmptyBuild
        /\ exists(fs, join(StagingRoot, "foo"))

\* s holds pat somewhere.
Contains(s, pat) == \E i \in 1..(Len(s) + 1) : IsAt(s, pat, i)

\* The path of directory dir relative to root, both given as text: empty for
\* the root itself, absent for a directory outside the root.
RelOf(dir, root) ==
    IF dir = root THEN Some("")
    ELSE IF starts_with(dir, root \o "/") THEN Some(SubSeq(dir, Len(root) + 2, Len(dir)))
    ELSE None

\* The staged directory of package pkg, as text.
StagedDirOf(pkg, root) == root \o "/target/" \o PATCHED_CRATES_DIR \o "/" \o pkg

\* arg names directory dir or a path inside it.
InsideDir(arg, dir) == arg = dir \/ starts_with(arg, dir \o "/")

\* The package whose directory path extends, or is extended by, the package's own.
Sibling == [foo |-> "foobar", foobar |-> "foo"]

\* C5: rewriting the arguments for foo (for foobar) changes no argument that
\* is a path inside the directory of foobar (of foo), given in absolute or in
\* workspace-relative form.
C5_PrefixSafe ==
    (probe.op = "rewritten" /\ probe.pkg \in DOMAIN Sibling) =>
        LET other == RewriteDirOf[Sibling[probe.pkg]]
        IN  \A i \in 1..Len(probe.args) :
                (\/ InsideDir(probe.args[i], other)
                 \/ InsideDir(probe.args[i], RelOf(other, probe.workspace_root).v))
                    => probe.out[i] = probe.args[i]

\* C6: for a package directory at or below the workspace root, an argument
\* that neither holds the directory's absolute path nor starts with its
\* relative path and a separator comes out unchanged.
C6_NoMatchUnchanged ==
    (probe.op = "rewritten" /\ RelOf(probe.manifest_dir, probe.workspace_root).some) =>
        \A i \in 1..Len(probe.args) :
            (/\ ~Contains(probe.args[i], probe.manifest_dir)
             /\ ~starts_with(probe.args[i], RelOf(probe.manifest_dir, probe.workspace_root).v \o "/"))
                => probe.out[i] = probe.args[i]

\* For foo the argument foobar/src is left alone, and so is the bare name foo.
C6_Witness ==
    /\ probe.op = "rewritten"
    /\ probe.pkg = "foo"
    /\ probe.args = <<"foobar/src", "foo">>
    /\ probe.out = probe.args

\* The pieces of s between the matches of pat, taken left to right.
RECURSIVE SplitOn(_, _)
SplitOn(s, pat) ==
    LET j == FindFrom(s, pat, 1)
    IN  IF j = 0 THEN <<s>>
        ELSE <<SubSeq(s, 1, j - 1)>> \o SplitOn(SubSeq(s, j + Len(pat), Len(s)), pat)

RECURSIVE JoinWith(_, _)
JoinWith(pieces, sep) ==
    IF Len(pieces) = 1 THEN pieces[1] ELSE pieces[1] \o sep \o JoinWith(Tail(pieces), sep)

\* What the rewriting is to make of one argument, for the package directory
\* md, its staged directory and its relative path rel.
RewriteRef(arg, md, staged, rel) ==
    IF Contains(arg, md) THEN JoinWith(SplitOn(arg, md), staged)
    ELSE IF rel.some /\ starts_with(arg, rel.v \o "/")
         THEN staged \o SubSeq(arg, Len(rel.v) + 1, Len(arg))
    ELSE arg

\* C7: the output has the length of the input; position by position, an
\* argument holding the absolute directory path has every occurrence replaced
\* by the staged path, an argument without one that starts with the relative
\* path and a separator has that leading path replaced and the rest kept, and
\* any other argument is kept.
C7_RewriterOutput ==
    probe.op = "rewritten" =>
        LET staged == StagedDirOf(probe.pkg, probe.workspace_root)
            rel == RelOf(probe.manifest_dir, probe.workspace_root)
        IN  /\ Len(probe.out) = Len(probe.args)
            /\ \A i \in 1..Len(probe.args) :
                  probe.out[i] = RewriteRef(probe.args[i], probe.manifest_dir, staged, rel)

\* Two absolute occurrences in one argument, followed by an argument in relative form.
C7_Witness ==
    /\ probe.op = "rewritten"
    /\ probe.pkg = "foo"
    /\ probe.args = <<"/ws/foo=/ws/foo", "foo/src/lib.rs">>
    /\ probe.out = <<"/ws/target/cargo-stitch/foo=/ws/target/cargo-stitch/foo",
                     "/ws/target/cargo-stitch/foo/src/lib.rs">>

\* C8: an engine that exits non-zero ends StitchSet::apply at once; the error
\* is PatchFailed for a patch and AstGrepFailed for a rule and carries the
\* path of the file whose engine failed, the k-th; exactly the first k were
\* attempted, the staged file holds the effects of the first k-1, the process
\* exits non-zero and so does the build.
C8_FailureLocality ==
    /\ \A i \in 1..Len(wraps) :
          LET w == wraps[i]
          IN  /\ \A j \in 1..Len(w.log) :
                    w.log[j].status # 0 => (j = Len(w.log) /\ w.pc = "failed")
              /\ (w.pc = "failed" /\ w.k >= 1) =>
                    /\ w.k <= Len(w.stitches)
                    /\ Len(w.log) = w.k
                    /\ \A j \in 1..w.k : w.log[j].file = w.stitches[j].path
                    /\ \A j \in 1..(w.k - 1) : w.log[j].status = 0
                    /\ w.log[w.k].status # 0
                    /\ w.result = Some(Err(IF w.stitches[w.k].kind = "Patch"
                                           THEN PatchFailed(w.stitches[w.k].path)
                                           ELSE AstGrepFailed(w.stitches[w.k].path)))
                    /\ Staged(w) = AppliedInOrder(fs, w.stitches, w.k - 1, Original(w))
                    /\ w.exit.some /\ w.exit.v # 0
    /\ (orch.pc = "exited" /\ cargo.pc = "exited" /\ cargo.failed) => orch.exit.v # 0

\* The second of three modifications failed: the first one's effect is in the
\* staged file and the third was not attempted.
C8_Witness ==
    \E i \in 1..Len(wraps) :
        /\ wraps[i].pc = "failed"
        /\ wraps[i].k = 2
        /\ Len(wraps[i].stitches) = 3
        /\ Len(wraps[i].log) = 2
        /\ wraps[i].result.v.err.kind = "AstGrepFailed"
        /\ Staged(wraps[i]) = Text("patched")

\* C9: the exit code of the ORCHESTRATE process is the build tool's own.
C9_ExitCodeMirrors ==
    (orch.pc = "exited" /\ cargo.pc = "exited" /\ cargo.status.v.some) =>
        orch.exit.v = cargo.status.v.v

\* The source directory of the package process w compiles.
SourceOf(w) == PathOf(w.env.manifest_dir.v)

\* The build output directory of the workspace.
BuildOutput == join(WsRoot, "target")

\* What f holds at or below directory d, and the same without the build output.
Under(f, d) == [p \in {q \in DOMAIN f : path_starts_with(q, d)} |-> f[p]]
OutsideOutput(f, d) ==
    [p \in {q \in DOMAIN f : path_starts_with(q, d) /\ ~path_starts_with(q, BuildOutput)} |-> f[p]]

\* The step is one of WRAP process i before the compiler takes over.
WrapStepOf(i) ==
    /\ StepOf(i)
    /\ wraps[i].pc \in {"start", "remove", "copy", "apply"}
    /\ wraps[i].env.manifest_dir.some

\* C10 (as amended): no step of a WRAP process creates, deletes or modifies
\* anything under the package's source directory outside the workspace's build
\* output directory.
C10_SourceUntouched ==
    [][\A i \in 1..Len(wraps) :
          WrapStepOf(i) => OutsideOutput(fs', SourceOf(wraps[i])) = OutsideOutput(fs, SourceOf(wraps[i]))]_vars

\* C10 as stated: nothing at all under the package's source directory changes.
C10_AsStated ==
    [][\A i \in 1..Len(wraps) :
          WrapStepOf(i) => Under(fs', SourceOf(wraps[i])) = Under(fs, SourceOf(wraps[i]))]_vars

\* The package at the workspace root has been staged and patched: its staged
\* directory lies under its own source directory, whose file is as it was.
C10_Witness ==
    \E i \in 1..Len(wraps) :
        /\ wraps[i].env.pkg = Some("app")
        /\ Stitched(wraps[i])
        /\ path_starts_with(wraps[i].dir, SourceOf(wraps[i]))
        /\ Staged(wraps[i]) = Text("patched")
        /\ Original(wraps[i]) = Text("hello")

\* The one process of the single-process specification is over.
Over == Len(wraps) = 1 /\ ~Active(wraps[1])

\* C11: when the process of a second build is over, the staged directory of
\* its package holds the files and contents it held when the process of the
\* first build was over, and the two processes ended alike; the first build
\* started from an absent, a stale or a blocked staged directory, the second from what
\* the first one left.
C11_IdempotentStaging ==
    (probe.op = "first" /\ Over) =>
        /\ Under(fs, probe.dir) = probe.tree
        /\ wraps[1].result = probe.result
        /\ wraps[1].exec = probe.exec
        /\ wraps[1].seen = probe.seen

\* foo was staged and patched by both builds, and its staged file holds the
\* modified text.
C11_Witness ==
    /\ probe.op = "first"
    /\ Over
    /\ wraps[1].env.pkg = Some("foo")
    /\ wraps[1].pc = "exited"
    /\ Len(wraps[1].log) = 2
    /\ Len(probe.log) = 2
    /\ probe.tree[wraps[1].dir \o SrcFile] = FileNode(Text("both"))
    /\ Staged(wraps[1]) = Text("both")

\* Process i is about to apply a patch whose context is not the text the
\* staged file holds.
PatchMismatch(i) ==
    /\ wraps[i].pc = "apply"
    /\ wraps[i].k <= Len(wraps[i].stitches)
    /\ wraps[i].stitches[wraps[i].k].kind = "Patch"
    /\ IsRewriteFile(fs, wraps[i].stitches[wraps[i].k].path)
    /\ Staged(wraps[i]) # Text(fs[wraps[i].stitches[wraps[i].k].path].content.from)

\* C12: a patch whose context does not match the staged file exactly is
\* rejected: the step fails with PatchFailed for that file and the staged
\* file is left as it was.
C12_StrictPatch ==
    [][\A i \in 1..Len(wraps) :
          (PatchMismatch(i) /\ StepOf(i)) =>
              /\ wraps'[i].pc = "failed"
              /\ wraps'[i].result = Some(Err(PatchFailed(wraps[i].stitches[wraps[i].k].path)))
              /\ fs' = fs]_vars

\* Process w has passed the tool check and run() has selected WRAP for it.
InWrap(w) == check_required_tools(host.tools).ok /\ Mode(w.env) = "WRAP"

\* WRAP process w has a package name and lacks the workspace root or the manifest.
MissingCoordination(w) ==
    /\ InWrap(w)
    /\ w.env.pkg.some
    /\ ~w.env.root.some \/ ~w.env.manifest.some

\* The names of the variables run_wrapper needs that env lacks.
AbsentVars(env) ==
    {n \in {"CARGO_MANIFEST_DIR", WORKSPACE_ROOT_ENV, STITCH_MANIFEST_ENV} :
        \/ n = "CARGO_MANIFEST_DIR" /\ ~env.manifest_dir.some
        \/ n = WORKSPACE_ROOT_ENV /\ ~env.root.some
        \/ n = STITCH_MANIFEST_ENV /\ ~env.manifest.some}

\* C13: a WRAP process with a package name whose environment lacks the
\* workspace root or the manifest fails with MissingEnvVar naming an absent
\* variable (the workspace root's when it is absent, else the manifest's,
\* when the package directory is there), launches no compiler, has no staged
\* directory of its own, and none of its steps changes the filesystem.
C13_MissingEnvVar ==
    /\ [](\A i \in 1..Len(wraps) :
             (MissingCoordination(wraps[i]) /\ wraps[i].pc # "start") =>
                 /\ wraps[i].pc = "failed"
                 /\ wraps[i].exec = None
                 /\ wraps[i].dir = <<>>
                 /\ wraps[i].result.v.err.kind = "MissingEnvVar"
                 /\ wraps[i].result.v.err.name \in AbsentVars(wraps[i].env)
                 /\ wraps[i].env.manifest_dir.some =>
                       wraps[i].result.v.err =
                           MissingEnvVar(IF ~wraps[i].env.root.some THEN WORKSPACE_ROOT_ENV
                                         ELSE STITCH_MANIFEST_ENV))
    /\ [][\A i \in 1..Len(wraps) : (MissingCoordination(wraps[i]) /\ StepOf(i)) => fs' = fs]_vars

\* The process of foo has the workspace root but no manifest, a stale staged
\* directory is there, and it has failed naming the manifest variable.
C13_Witness ==
    /\ Len(wraps) = 1
    /\ MissingCoordination(wraps[1])
    /\ wraps[1].env.pkg = Some("foo")
    /\ wraps[1].env.root.some
    /\ wraps[1].result = Some(Err(MissingEnvVar(STITCH_MANIFEST_ENV)))
    /\ exists(fs, join(StagedDirFor(wraps[1].env), "old.rs"))

\* WRAP process w has no package name.
ProbeLike(w) == InWrap(w) /\ ~w.env.pkg.some

\* C14: a WRAP process without a package name launches the compiler with the
\* arguments it received, whether the coordination variables are there or
\* not; it reports no error, stages and patches nothing, and its own steps
\* leave the filesystem alone.
C14_ProbePassthrough ==
    /\ [](\A i \in 1..Len(wraps) :
             (ProbeLike(wraps[i]) /\ wraps[i].pc # "start") =>
                 /\ wraps[i].pc \in {"rustc", "exited"}
                 /\ wraps[i].exec = Some(wraps[i].args)
                 /\ wraps[i].result = None
                 /\ wraps[i].dir = <<>>
                 /\ wraps[i].log = <<>>)
    /\ [][\A i \in 1..Len(wraps) :
             (ProbeLike(wraps[i]) /\ StepOf(i) /\ wraps[i].pc = "start") => fs' = fs]_vars

\* A probe without any coordination variable has become the compiler.
C14_Witness ==
    /\ Len(wraps) = 1
    /\ ProbeLike(wraps[1])
    /\ ~wraps[1].env.root.some
    /\ ~wraps[1].env.manifest.some
    /\ wraps[1].pc = "rustc"
    /\ wraps[1].exec = Some(<<"-vV">>)

\* C15: a user's process runs ORCHESTRATE and a process with the flag, of
\* any value, runs WRAP; the build tool's environment carries the flag, so
\* every process it starts runs WRAP with the workspace root and the manifest
\* of the ORCHESTRATE process, discovers nothing and launches no build tool:
\* per build there is one discovery and one launch.
C15_ModeSelection ==
    /\ Mode(UserEnv) = "ORCHESTRATE"
    /\ \A v \in {"1", "", "0"} : Mode([UserEnv EXCEPT !.wrap = Some(v)]) = "WRAP"
    /\ cargo.pc \in {"running", "exited"} =>
          /\ cargo.env.wrap.some
          /\ orch.discovered = 1
          /\ orch.launched = 1
    /\ \A i \in 1..Len(wraps) :
          /\ Mode(wraps[i].env) = "WRAP"
          /\ wraps[i].pc # "orchestrating"
          /\ wraps[i].discovered = 0
          /\ wraps[i].launched = 0
          /\ wraps[i].env.root = cargo.env.root
          /\ wraps[i].env.manifest = cargo.env.manifest

\* In a second build a process started by the build tool has run WRAP up to
\* the compiler.
C15_Witness ==
    /\ orch.pc = "waiting"
    /\ orch.builds = 2
    /\ Len(wraps) = 1
    /\ wraps[1].env.pkg = Some("foo")
    /\ wraps[1].dir # <<>>
    /\ wraps[1].pc = "rustc"

\* An engine cannot be launched on this host.
ToolMissing == host.tools # {"patch", "sg"}

\* C16: on a host where an engine is missing, a process of either mode ends
\* with MissingTool naming the first missing engine (patch before sg); it
\* has not discovered, launched no build tool and no compiler, has no staged
\* directory, ran no engine, and no step changes the filesystem.
C16_ToolCheckFirst ==
    /\ [](ToolMissing =>
             \A i \in 1..Len(wraps) :
                 wraps[i].pc # "start" =>
                     /\ wraps[i].pc = "failed"
                     /\ wraps[i].result =
                            Some(Err(MissingTool(IF "patch" \notin host.tools THEN "patch"
                                                 ELSE "sg (ast-grep)")))
                     /\ wraps[i].discovered = 0
                     /\ wraps[i].launched = 0
                     /\ wraps[i].exec = None
                     /\ wraps[i].dir = <<>>
                     /\ wraps[i].log = <<>>)
    /\ [][ToolMissing => fs' = fs]_vars

\* A process in WRAP mode with a complete environment for foo, whose
\* modifications and stale staged directory are there, has ended with
\* MissingTool for the structural engine.
C16_Witness ==
    /\ host.tools = {"patch"}
    /\ Len(wraps) = 1
    /\ Mode(wraps[1].env) = "WRAP"
    /\ wraps[1].env.pkg = Some("foo")
    /\ wraps[1].env.root.some
    /\ wraps[1].env.manifest.some
    /\ wraps[1].env.manifest_dir.some
    /\ "foo" \in DOMAIN from_str(wraps[1].env.manifest.v)
    /\ exists(fs, join(StagedDirFor(wraps[1].env), "old.rs"))
    /\ wraps[1].result = Some(Err(MissingTool("sg (ast-grep)")))

\* WRAP process w compiles a package the manifest it was given has an entry for.
HasEntry(w) ==
    /\ InWrap(w)
    /\ w.env.pkg.some /\ w.env.manifest_dir.some /\ w.env.root.some /\ w.env.manifest.some
    /\ from_str_ok(w.env.manifest.v)
    /\ w.env.pkg.v \in DOMAIN from_str(w.env.manifest.v)

\* The path below directory d has no component the copy skips.
Copied(p, d) == \A j \in (Len(d) + 1)..Len(p) : p[j] \notin SkippedNames

\* The staged directory of w has an entry for every source entry the copy takes.
CopyComplete(w) ==
    /\ is_dir(fs, w.dir)
    /\ \A p \in DOMAIN fs :
          (Below(p, SourceOf(w)) /\ Copied(p, SourceOf(w))) =>
              LET q == w.dir \o SubSeq(p, Len(SourceOf(w)) + 1, Len(p))
              IN  exists(fs, q) /\ fs[q].kind = fs[p].kind

\* C17: for a package with a manifest entry, no engine runs before the copy
\* is made, the compiler is launched only when the copy is complete and every
\* modification of the entry was run, in order, with status 0, it is launched
\* with the rewritten arguments, and a process that failed has launched none.
C17_StepOrder ==
    \A i \in 1..Len(wraps) :
        LET w == wraps[i]
            entry == from_str(w.env.manifest.v)[w.env.pkg.v].stitches
        IN  HasEntry(w) =>
              /\ w.pc \in {"start", "remove", "copy"} => (w.log = <<>> /\ w.exec = None)
              /\ w.pc = "apply" => (w.exec = None /\ CopyComplete(w))
              /\ w.pc = "failed" => w.exec = None
              /\ w.exec.some =>
                    /\ w.dir = patched_dir(w.env.pkg.v, PathOf(w.env.root.v))
                    /\ CopyComplete(w)
                    /\ Len(w.log) = Len(entry)
                    /\ \A j \in 1..Len(entry) : w.log[j].file = entry[j].path /\ w.log[j].status = 0
                    /\ Len(w.exec.v) = Len(w.args)
                    /\ \A j \in 1..Len(w.args) :
                          w.exec.v[j] = RewriteRef(w.args[j], w.env.manifest_dir.v,
                                                   StagedDirOf(w.env.pkg.v, w.env.root.v),
                                                   RelOf(w.env.manifest_dir.v, w.env.root.v))

\* Staging failed, or a modification did, and the process ended with the
\* error, no compiler launched.
C17_FailureWitness ==
    \E i \in 1..Len(wraps) :
        /\ HasEntry(wraps[i])
        /\ wraps[i].pc = "failed"
        /\ wraps[i].exec = None

\* foo's two modifications were applied and the compiler was launched on the
\* staged source file.
C17_Witness ==
    /\ Len(wraps) = 1
    /\ HasEntry(wraps[1])
    /\ wraps[1].env.pkg = Some("foo")
    /\ wraps[1].pc = "rustc"
    /\ Len(wraps[1].log) = 2
    /\ wraps[1].exec.v # wraps[1].args
    /\ InputOf(wraps[1].exec.v) = Some(wraps[1].dir \o SrcFile)

\* The source entry a staged path of process w is the copy of.
CounterpartOf(w, q) == SourceOf(w) \o SubSeq(q, Len(w.dir) + 1, Len(q))

\* C18: once a process with a manifest entry has staged its package, every
\* entry below the staged directory is the copy of an entry of the same kind
\* of the package's source tree, and until the first modification is run every
\* staged file has the contents of its source file.
C18_FromScratch ==
    \A i \in 1..Len(wraps) :
        LET w == wraps[i]
        IN  (HasEntry(w) /\ w.pc \in {"apply", "rustc"}) =>
              \A q \in DOMAIN fs :
                  Below(q, w.dir) =>
                      /\ exists(fs, CounterpartOf(w, q))
                      /\ fs[q].kind = fs[CounterpartOf(w, q)].kind
                      /\ w.log = <<>> => fs[q] = fs[CounterpartOf(w, q)]

\* A first build left a modified copy of foo; the process of the second build
\* has staged foo again and the staged source file is the original once more.
C18_Witness ==
    /\ probe # NoProbe
    /\ Len(wraps) = 1
    /\ HasEntry(wraps[1])
    /\ wraps[1].env.pkg = Some("foo")
    /\ wraps[1].pc = "apply"
    /\ wraps[1].log = <<>>
    /\ probe.log # <<>>
    /\ probe.tree[probe.dir \o SrcFile].content # Original(wraps[1])
    /\ Staged(wraps[1]) = Original(wraps[1])

\* The entry p of the tree f below src lies in no directory named target or
\* .git and is no such directory itself.
OutsideSkippedDirs(f, p, src) ==
    \A j \in (Len(src) + 1)..Len(p) :
        ~(p[j] \in {"target", ".git"} /\ is_dir(f, SubSeq(p, 1, j)))

\* The tree the copy of src at dst is to be when exactly the directories named
\* target or .git are left out.
ExpectedCopy(f, src, dst) ==
    LET kept == {p \in DOMAIN f : Below(p, src) /\ OutsideSkippedDirs(f, p, src)}
    IN  [q \in {dst} \cup {dst \o SubSeq(p, Len(src) + 1, Len(p)) : p \in kept} |->
            IF q = dst THEN DirNode ELSE f[src \o SubSeq(q, Len(dst) + 1, Len(q))]]

\* C19: after copy_dir_recursive(src, dst), dst holds exactly the entries of
\* src outside directories named target or .git, with their relative paths and
\* contents; a regular file named target or .git is among them.
C19_CopyExact ==
    probe # NoProbe /\ probe.op = "copy" =>
        /\ probe.ok
        /\ Under(fs, probe.dst) = ExpectedCopy(probe.before, probe.src, probe.dst)

\* What the copy does: dst holds exactly the entries of src no component of
\* whose relative path is named target or .git, whatever the kind of the entry
\* so named.
C19_SkipsByName ==
    probe # NoProbe /\ probe.op = "copy" =>
        /\ probe.ok
        /\ Under(fs, probe.dst) =
              [q \in {probe.dst} \cup
                     {probe.dst \o SubSeq(p, Len(probe.src) + 1, Len(p)) :
                         p \in {x \in DOMAIN probe.before :
                                   Below(x, probe.src) /\ Copied(x, probe.src)}} |->
                  IF q = probe.dst THEN DirNode
                  ELSE probe.before[probe.src \o SubSeq(q, Len(probe.dst) + 1, Len(q))]]

\* Process w compiles a package whose source directory contains the
\* directory its copy is staged in.
StagedInsideSource(w) ==
    /\ HasEntry(w)
    /\ Below(patched_dir(w.env.pkg.v, PathOf(w.env.root.v)), SourceOf(w))

\* The entries of the source of w a copy is to look at: those in no directory
\* named target or .git.
ToVisit(w) ==
    {p \in DOMAIN fs :
        /\ Below(p, SourceOf(w))
        /\ \A j \in (Len(SourceOf(w)) + 1)..(Len(p) - 1) : p[j] \notin {"target", ".git"}}

\* A regular file lies where a directory on the way to the staged directory
\* d is to be.
Blocked(d) == \E a \in Ancestors(d) : exists(fs, a) /\ ~is_dir(fs, a)

\* C20: for a package whose source directory contains its staged directory,
\* the copy fails only when the staged directory cannot be made; otherwise it
\* ends having taken each source entry outside target and .git once, and no
\* entry of the staged copy lies in a directory named target.
C20_StagingTerminates ==
    \A i \in 1..Len(wraps) :
        LET w == wraps[i]
        IN  StagedInsideSource(w) =>
              /\ (w.pc = "failed" /\ w.log = <<>>) => Blocked(w.dir)
              /\ (w.pc \in {"apply", "rustc"} \/ (w.pc = "failed" /\ w.log # <<>>)) =>
                    /\ \A j, k \in 1..Len(w.visited) : w.visited[j] = w.visited[k] => j = k
                    /\ {w.visited[j] : j \in 1..Len(w.visited)} = ToVisit(w)
                    /\ \A q \in DOMAIN fs :
                          Below(q, w.dir) =>
                              \A j \in (Len(w.dir) + 1)..Len(q) : q[j] # "target"

\* The package at the workspace root has been staged below the root's target
\* directory: the copy met target, which holds the staged directory, and the
\* compiler was launched.
C20_Witness ==
    \E i \in 1..Len(wraps) :
        /\ StagedInsideSource(wraps[i])
        /\ wraps[i].pc = "rustc"
        /\ \E j \in 1..Len(wraps[i].visited) : wraps[i].visited[j] = BuildOutput
        /\ path_starts_with(wraps[i].dir, BuildOutput)
        /\ exists(fs, wraps[i].dir \o SrcFile)

\* The filesystem StitchSet::apply leaves when it runs from modification k on.
RECURSIVE ApplyFrom(_, _, _, _)
ApplyFrom(f, stitches, k, dir) ==
    IF k > Len(stitches) THEN f
    ELSE LET applied == StitchApply(f, stitches[k], dir)
         IN  IF applied.res.ok THEN ApplyFrom(applied.fs, stitches, k + 1, dir) ELSE applied.fs

\* The filesystem a process started like w leaves when it runs alone from
\* filesystem f, up to the launch of the compiler.
AloneFs(f, w) ==
    LET started == WrapStartStep(NewWrap(w.env, w.args), host.tools)
        cleared == IF exists(f, started.dir) THEN remove_dir_all(f, started.dir) ELSE f
        copied == copy_dir_recursive(cleared, PathOf(w.env.manifest_dir.v), started.dir)
    IN  IF started.pc # "remove" THEN f
        ELSE IF ~copied.ok THEN copied.fs
        ELSE ApplyFrom(copied.fs, started.stitches, 1, started.dir)

\* The two processes compile different packages.
DistinctPackages == Len(wraps) = 2 /\ wraps[1].env.pkg # wraps[2].env.pkg

\* The step is one of process i as wrapper and leaves alone everything
\* outside directory d, the directories leading to d excepted when allow is set.
KeepsOutside(i, d, allow) ==
    (wraps[i].pc \in {"remove", "copy", "apply"} /\ wraps'[i] # wraps[i]) =>
        /\ \A p \in DOMAIN fs : ~path_starts_with(p, d) => (p \in DOMAIN fs' /\ fs'[p] = fs[p])
        /\ \A p \in DOMAIN fs' \ DOMAIN fs :
              \/ path_starts_with(p, d)
              \/ allow /\ p \in Ancestors(d) /\ fs'[p] = DirNode

\* The staged directories of different packages are different and neither
\* holds the other; when both processes are over, each staged directory is as
\* the process running alone leaves it.
PairOutcome ==
    DistinctPackages =>
        /\ ~path_starts_with(patched_dir(wraps[1].env.pkg.v, WsRoot),
                             patched_dir(wraps[2].env.pkg.v, WsRoot))
        /\ ~path_starts_with(patched_dir(wraps[2].env.pkg.v, WsRoot),
                             patched_dir(wraps[1].env.pkg.v, WsRoot))
        /\ (~Active(wraps[1]) /\ ~Active(wraps[2])) =>
              \A i \in 1..2 :
                  Under(fs, patched_dir(wraps[i].env.pkg.v, WsRoot)) =
                      Under(AloneFs(probe.before, wraps[i]), patched_dir(wraps[i].env.pkg.v, WsRoot))

\* C21: processes for different packages have staged directories none of
\* which holds another, a wrapper step changes nothing outside the staged
\* directory of its process except that it makes the directories leading to
\* it, and under every interleaving each staged directory ends as the process
\* running alone leaves it.
C21_NoContention ==
    /\ [](PairOutcome)
    /\ [][DistinctPackages => \A i \in 1..2 : KeepsOutside(i, wraps[i].dir, TRUE)]_vars

\* C21 as stated: a wrapper step writes nothing at all outside the staged
\* directory of its process.
C21_AsStated ==
    [][DistinctPackages => \A i \in 1..2 : KeepsOutside(i, wraps[i].dir, FALSE)]_vars

\* foo and the root package were staged side by side, both with their
\* modification applied, and both compilers have run.
C21_Witness ==
    /\ DistinctPackages
    /\ wraps[1].env.pkg = Some("foo") /\ wraps[2].env.pkg = Some("app")
    /\ wraps[1].pc = "exited" /\ wraps[2].pc = "exited"
    /\ Len(wraps[1].log) > 0 /\ Len(wraps[2].log) > 0
    /\ fs[wraps[1].dir \o SrcFile].content # Text("hello")
    /\ fs[wraps[2].dir \o SrcFile].content # Text("hello")

\* The compiler of process w was launched on a source file of the staged
\* copy of its package and has run.
ReadStaged(w) ==
    /\ HasEntry(w)
    /\ w.pc = "exited"
    /\ w.exec.some
    /\ InputOf(w.exec.v).some
    /\ path_starts_with(InputOf(w.exec.v).v, w.dir)

\* C22: the compiler a process launched on the staged copy of its package has
\* read the source file as it is with every modification of the package
\* applied, whatever the other process did meanwhile, a process for the same
\* package included.
C22_ReadsComplete ==
    \A i \in 1..Len(wraps) :
        ReadStaged(wraps[i]) =>
            /\ exists(AloneFs(probe.before, wraps[i]), InputOf(wraps[i].exec.v).v)
            /\ wraps[i].seen = Some(AloneFs(probe.before, wraps[i])[InputOf(wraps[i].exec.v).v].content)

\* A discovery started in cwd meets something it cannot read: the stitches
\* directory of the workspace, or an entry of it.
DiscoveryFails(cwd, unreadable) ==
    /\ host.tools = {"patch", "sg"}
    /\ find_workspace_root(fs, cwd).some
    /\ LET dir == join(find_workspace_root(fs, cwd).v, "stitches")
       IN  /\ is_dir(fs, dir)
           /\ \E p \in unreadable : p = dir \/ (exists(fs, p) /\ parent(p) = dir)

\* C23: an ORCHESTRATE process whose discovery cannot list the stitches
\* directory, or cannot read one of its entries, ends with IoError, whatever
\* packages were scanned before, and launches no build tool.
C23_AllOrNothing ==
    [][\A cwd \in Cwds, unreadable \in Unreadables :
          (Orchestrate(cwd, unreadable) /\ DiscoveryFails(cwd, unreadable)) =>
              /\ orch'.pc = "exited"
              /\ orch'.result = Some(Err(IoError))
              /\ orch'.launched = 0
              /\ cargo'.pc = "off"
              /\ wraps' = <<>>]_vars

\* A discovery failed in a workspace where foo has a modification: the
\* process is over with IoError and no build tool runs.
C23_Witness ==
    /\ orch.pc = "exited"
    /\ orch.result = Some(Err(IoError))
    /\ orch.discovered = 1
    /\ orch.launched = 0
    /\ cargo.pc = "off"
    /\ exists(fs, join(join(StitchesDir, "foo"), "001-fix.patch"))
    /\ is_dir(fs, join(StitchesDir, "foobar"))

\* WRAP process w has every variable run_wrapper reads, and its manifest
\* variable holds a text that does not deserialize.
MalformedCoordination(w) ==
    /\ InWrap(w)
    /\ w.env.pkg.some /\ w.env.manifest_dir.some /\ w.env.root.some /\ w.env.manifest.some
    /\ ~from_str_ok(w.env.manifest.v)

\* C24: a WRAP process whose manifest variable does not deserialize ends with
\* the error kind MissingEnvVar.
C24_MalformedIsMissing ==
    \A i \in 1..Len(wraps) :
        (MalformedCoordination(wraps[i]) /\ wraps[i].pc # "start") =>
            /\ wraps[i].pc = "failed"
            /\ wraps[i].result.v.err.kind = "MissingEnvVar"

\* What the code does for such a process: it ends with IoError, nothing
\* staged, no engine run and no compiler launched.
C24_MalformedIsIoError ==
    \A i \in 1..Len(wraps) :
        (MalformedCoordination(wraps[i]) /\ wraps[i].pc # "start") =>
            /\ wraps[i].pc = "failed"
            /\ wraps[i].result = Some(Err(IoError))
            /\ wraps[i].log = <<>>
            /\ wraps[i].exec = None

\* The kinds of lib.rs's Error.
ErrorKinds == {"IoError", "PatchFailed", "AstGrepFailed", "CargoFailed", "MissingEnvVar", "MissingTool"}

\* The failures the processes of the build have ended with.
Failures ==
    {r \in {orch.result} \cup {wraps[i].result : i \in 1..Len(wraps)} : r.some /\ ~r.v.ok}

\* C25: every failure an ORCHESTRATE or a WRAP process ends with is of one of
\* the six kinds.
C25_ClosedTaxonomy == \A r \in Failures : r.v.err.kind \in ErrorKinds

\* What the code does: the six kinds, and MissingWorkspaceRoot for an
\* ORCHESTRATE process started outside any workspace.
C25_SevenKinds ==
    /\ \A r \in Failures : r.v.err.kind \in ErrorKinds \cup {"MissingWorkspaceRoot"}
    /\ \A i \in 1..Len(wraps) :
          (wraps[i].result.some /\ ~wraps[i].result.v.ok) =>
              wraps[i].result.v.err.kind \in ErrorKinds
    /\ (orch.result.some /\ ~orch.result.v.ok) =>
          orch.result.v.err.kind \in {"IoError", "CargoFailed", "MissingTool", "MissingWorkspaceRoot"}

====
